---- MODULE Spec2Model ----
(***************************************************************************)
(* A model of the YouTube Telegram bot (Telegram_bot/): the transcript     *)
(* chunker, the Q&A retry loop, the error paths of the handlers and the    *)
(* per-user session store driven by the handlers.                          *)
(*                                                                         *)
(* Each part of the program has its own specification over its own group   *)
(* of variables; the variables of the other parts are held at rest.        *)
(*   SpecChunk   bot/transcript.py  chunk_transcript                       *)
(*   SpecCall    one request: the provider call with its retries           *)
(*               (qa_engine.answer_question, summarizer._call_ai_provider, *)
(*               transcript._openrouter_extract_transcript) and the        *)
(*               handler's reply (bot/handlers.py)                         *)
(*   SpecSession the session store (bot/session.py) and the cache          *)
(*               (bot/cache.py) under the handlers, one update at a time   *)
(*   SpecSearch  bot/qa_engine.py  QAIndex.search on its two backends      *)
(*   SpecCache   bot/cache.py  the memory and the Redis backend            *)
(*   SpecHistory bot/session.py  UserSession.add_history on a long         *)
(*               conversation                                              *)
(*   SpecLoop    main.py  the updates of several chats, one handler at a   *)
(*               time, with the waits of the retry loops and the           *)
(*               embedding model of bot/embedder.py                        *)
(*   SpecAnswer  bot/handlers.py  the Q&A branch of handle_message around  *)
(*               qa_engine.answer_question, on a long conversation         *)
(***************************************************************************)
EXTENDS Integers, Sequences, FiniteSets, TLC

VARIABLES
    \* ---- chunk_transcript (bot/transcript.py) ----
    entries,        \* the argument: a sequence of TranscriptEntry
    size,           \* int(os.getenv("CHUNK_SIZE", 400))
    overlap,        \* int(os.getenv("CHUNK_OVERLAP", 50))
    chunks,         \* the list of chunks emitted so far
    current_words,  \* the running buffer
    start_ts,       \* timestamp of the entry that found the buffer empty
    start_sec,      \* start_seconds of that entry
    next_entry,     \* position of the for loop: index of the next entry
    cpc,            \* "idle" | "loop" | "done"
    \* ---- one request through a provider call and its handler ----
    path,           \* which handler runs: "qa", "summary", "deepdive", ...
    rpc,            \* "idle" | "try" | "sleep" | "handler" | "done"
    attempt,        \* the loop variable of `for attempt in range(n)`
    relevant,       \* qa: whether qa_index.search returned any chunk
    calls,          \* what the provider did on each call made so far
    slept,          \* the arguments of the time.sleep calls made so far
    outcome,        \* what the called function returned or raised
    shown,          \* the texts handed to the transport (reply/edit_text)
    \* ---- the session store and the cache under the handlers ----
    _store,         \* SessionStore._store: chat_id -> UserSession
    _s,             \* cache._Memory._s: key -> (value, expiry)
    now,            \* time.time(), in seconds since the bot started
    ticks,          \* how many times the clock has been moved
    updates,        \* how many updates have been handled
    last,           \* what the last handler did: what store.get returned
                    \* and logged, how load_video ended, what search found
    loaded,         \* history: chat_id -> the ids of the videos handed to
                    \* load_video since the chat's session was created
    \* ---- QAIndex.search (bot/qa_engine.py) ----
    scores,         \* the similarity of each chunk of the index to the query
    asked_k,        \* the argument top_k
    backend,        \* FAISS_OK: TRUE with faiss, FALSE with the numpy fallback
    hits,           \* what search returned
    spc,            \* "idle" | "call" | "done"
    \* ---- the cache backend (bot/cache.py) ----
    use_redis,      \* whether _c is a _Redis (else a _Memory)
    kept,           \* _Memory._s, or the keys the Redis server holds
    clock,          \* time.time(), in seconds
    cticks,         \* how many times the clock has been moved
    cops,           \* how many operations have been made
    clast,          \* the last operation: its arguments and how it ended
    written,        \* history: key -> the last set call made for it
    \* ---- one session's conversation (bot/session.py) ----
    talking,        \* a UserSession
    appended,       \* history: every entry handed to add_history, in order
    added,          \* how many add_history calls have been followed
    \* ---- the updates through the Application (main.py) ----
    inbox,          \* the updates sent so far, in order: chat and kind
    hpc,            \* per update: where its handler is
    holds,          \* per update: the session object its handler holds
    tries,          \* per update: the loop variable `attempt`
    sessions,       \* SessionStore._store: chat_id -> session object
    objects,        \* the UserSession objects made so far
    _model,         \* embedder._model
    models_made,    \* how many SentenceTransformer objects have been made
    embeds,         \* how many embed_texts calls have been made
    \* ---- the Q&A branch of handle_message (bot/handlers.py) ----
    asking,         \* the UserSession store.get returned
    given,          \* history: the arguments history and qa_index as they
                    \* were when answer_question was called
    answered,       \* what answer_question returned or raised
    qpc             \* "idle" | "call" | "answered" | "replied"

chunkVars == <<entries, size, overlap, chunks, current_words, start_ts,
               start_sec, next_entry, cpc>>

callVars == <<path, rpc, attempt, relevant, calls, slept, outcome, shown>>

sessionVars == <<_store, _s, now, ticks, updates, last, loaded>>

searchVars == <<scores, asked_k, backend, hits, spc>>

cacheVars == <<use_redis, kept, clock, cticks, cops, clast, written>>

historyVars == <<talking, appended, added>>

answerVars == <<asking, given, answered, qpc>>

loopVars == <<inbox, hpc, holds, tries, sessions, objects, _model,
              models_made, embeds>>

vars == <<chunkVars, callVars, sessionVars, searchVars, cacheVars,
          historyVars, loopVars, answerVars>>

\* What an action of one part leaves alone: the variables of the other parts.
ChunkFrame ==
    UNCHANGED <<callVars, sessionVars, searchVars, cacheVars, historyVars,
                loopVars, answerVars>>
CallFrame ==
    UNCHANGED <<chunkVars, sessionVars, searchVars, cacheVars, historyVars,
                loopVars, answerVars>>
SessionFrame ==
    UNCHANGED <<chunkVars, callVars, searchVars, cacheVars, historyVars,
                loopVars, answerVars>>
SearchFrame ==
    UNCHANGED <<chunkVars, callVars, sessionVars, cacheVars, historyVars,
                loopVars, answerVars>>
CacheFrame ==
    UNCHANGED <<chunkVars, callVars, sessionVars, searchVars, historyVars,
                loopVars, answerVars>>
HistoryFrame ==
    UNCHANGED <<chunkVars, callVars, sessionVars, searchVars, cacheVars,
                loopVars, answerVars>>
LoopFrame ==
    UNCHANGED <<chunkVars, callVars, sessionVars, searchVars, cacheVars,
                historyVars, answerVars>>
AnswerFrame ==
    UNCHANGED <<chunkVars, callVars, sessionVars, searchVars, cacheVars,
                historyVars, loopVars>>

-----------------------------------------------------------------------------
(* Helpers *)

Range(s) == {s[i] : i \in 1..Len(s)}

Min(a, b) == IF a <= b THEN a ELSE b

\* The words n+1 .. n+k of a transcript, each word named by its position in
\* the transcript, so that two occurrences are never confused.
WordsFrom(n, k) == [i \in 1..k |-> n + i]

-----------------------------------------------------------------------------
(* bot/transcript.py: TranscriptEntry, chunk_transcript *)

\* Program configuration defaults (os.getenv(..., default)).
CHUNK_SIZE == 400
CHUNK_OVERLAP == 50

\* Bounds of the generated transcripts.
MaxEntries == 4
MaxEntryWords == 3
MaxSize == 3

\* @dataclass TranscriptEntry. The text is held as the sequence of its words
\* (what text.split() yields); a timestamp string is named by a number.
TranscriptEntry(ts, sec, words) ==
    [timestamp |-> ts, start_seconds |-> sec, text |-> words]

\* entry.text.split()
Split(text) == text

\* current_words[-overlap:] for overlap >= 0. Python reads -0 as 0, so a zero
\* overlap slices from the start and keeps the whole list.
KeepAll(words, n) == words

KeepNone(words, n) == << >>

SliceLast(words, n) ==
    IF n = 0 THEN words
    ELSE IF n >= Len(words) THEN words
    ELSE SubSeq(words, Len(words) - n + 1, Len(words))

\* The chunk dict appended to chunks; " ".join(current_words) is held as the
\* word sequence.
Chunk(words, ts, sec) ==
    [text |-> words, timestamp |-> ts, start_seconds |-> sec]

\* len(current_words) >= size
EmitOnAnyWord(words, sz) == Len(words) >= 1

WindowFull(words, sz) == Len(words) >= sz

\* One iteration of `for entry in entries` on the loop state
\* st = [chunks, current_words, start_ts, start_sec].
LoopBody(st, entry, sz, ov) ==
    LET ts  == IF st.current_words = << >> THEN entry.timestamp ELSE st.start_ts
        sec == IF st.current_words = << >> THEN entry.start_seconds
               ELSE st.start_sec
        buf == st.current_words \o Split(entry.text)
    IN  IF WindowFull(buf, sz)
        THEN [chunks        |-> Append(st.chunks, Chunk(buf, ts, sec)),
              current_words |-> SliceLast(buf, ov),
              start_ts      |-> ts,
              start_sec     |-> sec]
        ELSE [chunks        |-> st.chunks,
              current_words |-> buf,
              start_ts      |-> ts,
              start_sec     |-> sec]

\* A variant that returns without looking at the buffer.
FlushNothing(st) == st.chunks

\* The code after the loop: flush a non-empty buffer as the last chunk.
FlushTail(st) ==
    IF st.current_words # << >>
    THEN Append(st.chunks,
                Chunk(st.current_words, st.start_ts, st.start_sec))
    ELSE st.chunks

\* The state before the loop: chunks, current_words = [], []
\* and start_ts, start_sec = "0:00", 0.0 (timestamp "0:00" is named 0).
LoopStart ==
    [chunks |-> << >>, current_words |-> << >>, start_ts |-> 0, start_sec |-> 0]

RECURSIVE LoopOver(_, _, _, _)
LoopOver(st, es, sz, ov) ==
    IF es = << >> THEN st
    ELSE LoopOver(LoopBody(st, Head(es), sz, ov), Tail(es), sz, ov)

\* chunk_transcript as a function of its argument and its configuration.
chunk_transcript(es, sz, ov) == FlushTail(LoopOver(LoopStart, es, sz, ov))

\* ---- the transcripts the chunker is run on ----

\* A transcript whose entries hold counts[1], counts[2], ... words; entry i
\* has timestamp i and start_seconds 30 * (i - 1).
RECURSIVE Offsets(_, _)
Offsets(counts, i) == IF i = 0 THEN 0 ELSE Offsets(counts, i - 1) + counts[i]

Transcript(counts) ==
    [i \in 1..Len(counts) |->
        TranscriptEntry(i, 30 * (i - 1),
                        WordsFrom(Offsets(counts, i - 1), counts[i]))]

SmallCounts ==
    UNION {[1..n -> 0..MaxEntryWords] : n \in 0..MaxEntries}

\* The scenario of 3 entries, none of them empty, that hold 900 words
\* together, the first two entries drawn from a grid that holds every
\* threshold of the default configuration (size 400, overlap 50) and its
\* neighbours.
ScenarioGrid ==
    {50 * k : k \in 1..17} \cup {349, 351, 399, 401, 749, 751}

ScenarioCounts ==
    {<<a, b, 900 - (a + b)>> : a, b \in ScenarioGrid} \cap [1..3 -> 1..900]

IsScenario ==
    /\ Len(entries) = 3
    /\ Len(entries[1].text) + Len(entries[2].text) + Len(entries[3].text) = 900
    /\ size = CHUNK_SIZE
    /\ overlap = CHUNK_OVERLAP

ChunkInit ==
    /\ \/ /\ \E counts \in SmallCounts : entries = Transcript(counts)
          /\ size \in 1..MaxSize
          /\ overlap \in 0..MaxSize
       \/ /\ \E counts \in ScenarioCounts : entries = Transcript(counts)
          /\ size = CHUNK_SIZE
          /\ overlap = CHUNK_OVERLAP
    /\ chunks = LoopStart.chunks
    /\ current_words = LoopStart.current_words
    /\ start_ts = LoopStart.start_ts
    /\ start_sec = LoopStart.start_sec
    /\ next_entry = 1
    /\ cpc = "loop"

\* The chunker at rest, in the specifications of the other parts.
ChunkRest ==
    /\ entries = << >>
    /\ size = CHUNK_SIZE
    /\ overlap = CHUNK_OVERLAP
    /\ chunks = << >>
    /\ current_words = << >>
    /\ start_ts = 0
    /\ start_sec = 0
    /\ next_entry = 1
    /\ cpc = "idle"

LoopState ==
    [chunks |-> chunks, current_words |-> current_words,
     start_ts |-> start_ts, start_sec |-> start_sec]

\* for entry in entries: one iteration
ChunkLoop ==
    /\ cpc = "loop"
    /\ next_entry <= Len(entries)
    /\ LET st == LoopBody(LoopState, entries[next_entry], size, overlap)
       IN  /\ chunks' = st.chunks
           /\ current_words' = st.current_words
           /\ start_ts' = st.start_ts
           /\ start_sec' = st.start_sec
    /\ next_entry' = next_entry + 1
    /\ UNCHANGED <<entries, size, overlap, cpc>>
    /\ ChunkFrame

\* if current_words: chunks.append(...); return chunks
ChunkReturn ==
    /\ cpc = "loop"
    /\ next_entry > Len(entries)
    /\ chunks' = FlushTail(LoopState)
    /\ cpc' = "done"
    /\ UNCHANGED <<entries, size, overlap, current_words, start_ts, start_sec,
                   next_entry>>
    /\ ChunkFrame

ChunkNext == ChunkLoop \/ ChunkReturn

-----------------------------------------------------------------------------
(* Python str operations, on strings as sequences of characters *)

UpperLetters == "ABCDEFGHIJKLMNOPQRSTUVWXYZ"
LowerLetters == "abcdefghijklmnopqrstuvwxyz"

CharAt(s, i) == SubSeq(s, i, i)

\* The rest of s from position i on: s[i-1:].
From(s, i) == SubSeq(s, i, Len(s))

LowerChar(c) ==
    IF \E i \in 1..26 : CharAt(UpperLetters, i) = c
    THEN CharAt(LowerLetters, CHOOSE i \in 1..26 : CharAt(UpperLetters, i) = c)
    ELSE c

UpperChar(c) ==
    IF \E i \in 1..26 : CharAt(LowerLetters, i) = c
    THEN CharAt(UpperLetters, CHOOSE i \in 1..26 : CharAt(LowerLetters, i) = c)
    ELSE c

\* str.lower()
RECURSIVE Lower(_)
Lower(s) == IF s = "" THEN "" ELSE LowerChar(CharAt(s, 1)) \o Lower(From(s, 2))

\* The positions at which k occurs in s.
Occurrences(s, k) ==
    {i \in 1..(Len(s) - Len(k) + 1) : SubSeq(s, i, i + Len(k) - 1) = k}

\* k in s
Contains(s, k) == Occurrences(s, k) # {}

\* any(k in s for k in keys)
AnyIn(keys, s) == \E k \in keys : Contains(s, k)

FirstOccurrence(s, k) ==
    CHOOSE i \in Occurrences(s, k) : \A j \in Occurrences(s, k) : i <= j

\* s.split(sep)[0]
SplitHead(s, sep) ==
    IF Contains(s, sep) THEN SubSeq(s, 1, FirstOccurrence(s, sep) - 1) ELSE s

\* s.replace(old, "")
RECURSIVE Remove(_, _)
Remove(s, old) ==
    IF ~Contains(s, old) THEN s
    ELSE LET i == FirstOccurrence(s, old)
         IN  SubSeq(s, 1, i - 1) \o Remove(From(s, i + Len(old)), old)

\* s.strip()
RECURSIVE LStrip(_)
LStrip(s) == IF s # "" /\ CharAt(s, 1) = " " THEN LStrip(From(s, 2)) ELSE s

RECURSIVE RStrip(_)
RStrip(s) ==
    IF s # "" /\ CharAt(s, Len(s)) = " "
    THEN RStrip(SubSeq(s, 1, Len(s) - 1))
    ELSE s

Strip(s) == LStrip(RStrip(s))

\* s.capitalize()
Capitalize(s) ==
    IF s = "" THEN "" ELSE UpperChar(CharAt(s, 1)) \o Lower(From(s, 2))

-----------------------------------------------------------------------------
(* The texts of the program. An emoji of the source is written as a mark   *)
(* in brackets: (!) warning sign, (x) cross mark, (~) hourglass, (#) ruler,*)
(* (>) rocket, (i) information sign.                                       *)

NOT_COVERED == "NOT_COVERED"

\* bot/qa_engine.py answer_question: the ValueError messages
QA_AT_CAPACITY ==
    "(~) The AI is currently at capacity. Please wait a minute and try again."
QA_TOO_LARGE ==
    "(#) This video's content is too large for the current AI model."
QA_GENERIC ==
    "(x) I couldn't generate an answer right now. Please try a different question."
QA_BUSY ==
    "(~) AI providers are currently busy. Please try again in 2 minutes."

\* bot/summarizer.py _call_ai_provider
AI_FAILED == "(x) AI Analysis failed: "
AI_BUSY == "(x) AI providers busy. Try again in 2 minutes."

\* bot/transcript.py _openrouter_extract_transcript
TRANSCRIPTION_FAILED == "(x) Transcription failed via OpenRouter: "
TRANSCRIPTION_CONGESTION ==
    "(x) Failed after 3 retries due to OpenRouter congestion."

\* bot/handlers.py
WARN == "(!) "
QA_SYSTEM_ERROR ==
    "(x) My Q&A engine encountered a system error. Please try a different question."
QA_NOT_COVERED_REPLY == "(i) *This topic is not covered in the video.*"
DEEPDIVE_SYSTEM_ERROR ==
    "(x) An internal error occurred during analysis. Please try again later."
ACTIONS_SYSTEM_ERROR == "(x) Failed to extract actions due to a system error."
SIMPLIFY_SYSTEM_ERROR == "(x) Could not simplify this content right now."
SUMMARY_SYSTEM_ERROR == "(x) System error generating summary."
CLEAN_AT_LIMIT ==
    "(~) The AI is currently at its limit. Please wait about 60 seconds and try again."
CLEAN_BUSY == "(>) The AI servers are busy right now. Please retry in a moment."
CLEAN_DEFAULT == "An error occurred while processing the video."
TRANSCRIPT_EXTRACTED == "Transcript extracted!"

\* The message each handler sends before it calls the provider.
Progress(p) ==
    CASE p = "qa"           -> "Searching the transcript..."
      [] p = "deepdive"     -> "Performing deep analysis... please wait."
      [] p = "actionpoints" -> "Extracting action points..."
      [] p = "simplify"     -> "Simplifying..."
      [] p = "summary"      -> "Regenerating summary..."
      [] p = "load"         -> "Bot is watching the video and extracting the transcript..."

-----------------------------------------------------------------------------
(* The provider (OpenRouter through the OpenAI client), seen from a call   *)

\* str(e) of the exceptions client.chat.completions.create can raise.
ProviderErrors ==
    {"Error code: 429 - Rate limit exceeded",
     "Error code: 402 - Quota exhausted for key sk-or-v1-77",
     "Error code: 503 - Provider overloaded",
     "Error code: 400 - context_length exceeded",
     "Error code: 400 - context_length exceeded: 14290 tokens",
     "Error code: 401 - Invalid key sk-or-v1-77",
     "Request blocked violations { policy: 7 }"}

\* str(e) of the AttributeError of None.strip(): a response without content.
NONE_STRIP_ERROR == "'NoneType' object has no attribute 'strip'"

\* What the provider can answer to a question.
AnswerContents ==
    {"At 3:45 the speaker says yes. ",
     "This is Not Mentioned in the video.",
     "",
     "A"}

\* What the provider can answer to a summary, deep dive, ... prompt.
AnalysisContents == {" 5 Key Points ... "}

\* What the provider can answer to the transcription prompt: JSON, or text
\* json.loads rejects.
JSON_OK == "{transcript: [...]}"
JSON_BAD == "{transcript: [... ..."
JSON_CUT == "{transcript: [{...} {"
TranscriptContents == {JSON_OK, JSON_BAD, JSON_CUT}

\* str(e) of the JSONDecodeError json.loads raises on JSON_BAD.
JSON_DECODE_ERROR == "Expecting value: line 1 column 14 (char 13)"

\* str(e) of the JSONDecodeError json.loads raises on JSON_CUT.
JSON_DELIMITER_ERROR == "Expecting ',' delimiter: line 1 column 21 (char 20)"

\* json.loads(clean_json): the parsed value, or the JSONDecodeError.
json_loads(text) ==
    CASE text = JSON_OK  -> [kind |-> "return", text |-> JSON_OK]
      [] text = JSON_CUT -> [kind |-> "raise", text |-> JSON_DELIMITER_ERROR]
      [] OTHER           -> [kind |-> "raise", text |-> JSON_DECODE_ERROR]

Raise(text) == [kind |-> "raise", text |-> text]
Response(content) == [kind |-> "response", none |-> FALSE, text |-> content]
ResponseNone == [kind |-> "response", none |-> TRUE, text |-> ""]

\* Everything one provider call can do, given the contents it may answer.
ProviderOutcomes(contents) ==
    {Raise(r) : r \in ProviderErrors}
        \cup {Response(c) : c \in contents} \cup {ResponseNone}

-----------------------------------------------------------------------------
(* The three retry loops. Each *Try operator is the body of one            *)
(* `for attempt in range(n)` iteration, given what the provider did: it    *)
(* yields what the function does next.                                     *)

Returned(text) == [kind |-> "return", text |-> text]
ValueError(text) == [kind |-> "ValueError", text |-> text]
OtherException(text) == [kind |-> "Exception", text |-> text]
NoOutcome == [kind |-> "none", text |-> ""]

\* A step of a loop: sleep and continue, or leave the function.
SleepThenContinue(seconds) == [sleep |-> TRUE, seconds |-> seconds, out |-> NoOutcome]
Leave(out) == [sleep |-> FALSE, seconds |-> 0, out |-> out]

\* ---- bot/qa_engine.py answer_question ----
QA_ATTEMPTS == 2
QA_COOLDOWN == 60
MIN_ANSWER_LEN == 2

QA_TRANSIENT_KEYS == {"429", "rate", "limit", "quota"}

not_covered_phrases ==
    {"not covered", "not mentioned", "not discussed", "not in the video",
     "not found", "no information", "cannot find", "does not appear",
     "does not mention"}

\* A variant that looks for the phrases in the answer as it is written.
NormaliseAsWritten(answer) ==
    IF AnyIn(not_covered_phrases, answer) \/ Len(answer) < MIN_ANSWER_LEN
    THEN NOT_COVERED
    ELSE answer

\* The normalisation of the provider's answer.
Normalise(answer) ==
    IF AnyIn(not_covered_phrases, Lower(answer)) \/ Len(answer) < MIN_ANSWER_LEN
    THEN NOT_COVERED
    ELSE answer

\* ... and attempt == 0: the only attempt after which the loop retries.
QaRetryAlways(att) == TRUE

QaMayRetry(att) == att = 0

\* The except branch of answer_question.
AnswerExcept(e, att) ==
    LET err_msg == Lower(e)
    IN  IF AnyIn(QA_TRANSIENT_KEYS, err_msg) /\ QaMayRetry(att)
        THEN SleepThenContinue(QA_COOLDOWN)
        ELSE IF AnyIn(QA_TRANSIENT_KEYS, err_msg)
        THEN Leave(ValueError(QA_AT_CAPACITY))
        ELSE IF Contains(err_msg, "context_length")
                    \/ Contains(err_msg, "too many tokens")
        THEN Leave(ValueError(QA_TOO_LARGE))
        ELSE Leave(ValueError(QA_GENERIC))

AnswerTry(did, att) ==
    IF did.kind = "raise" THEN AnswerExcept(did.text, att)
    ELSE IF did.none THEN AnswerExcept(NONE_STRIP_ERROR, att)
    ELSE Leave(Returned(Normalise(Strip(did.text))))

\* ---- bot/summarizer.py _call_ai_provider ----
AI_ATTEMPTS == 3
AI_BACKOFF == 70

AI_TRANSIENT_KEYS == {"429", "rate", "limit", "overloaded"}

CallAiExcept(e, att) ==
    IF AnyIn(AI_TRANSIENT_KEYS, Lower(e))
    THEN SleepThenContinue(AI_BACKOFF * (att + 1))
    ELSE Leave(ValueError(AI_FAILED \o e))

CallAiTry(did, att) ==
    IF did.kind = "raise" THEN CallAiExcept(did.text, att)
    ELSE IF did.none THEN CallAiExcept(NONE_STRIP_ERROR, att)
    ELSE Leave(Returned(Strip(did.text)))

\* ---- bot/transcript.py _openrouter_extract_transcript ----
EXTRACT_ATTEMPTS == 3
EXTRACT_BACKOFF == 70

EXTRACT_TRANSIENT_KEYS == {"429", "rate", "limit", "quota", "overloaded"}

ExtractExcept(e, att) ==
    IF AnyIn(EXTRACT_TRANSIENT_KEYS, Lower(e))
    THEN SleepThenContinue(EXTRACT_BACKOFF * (att + 1))
    ELSE Leave(ValueError(TRANSCRIPTION_FAILED \o e))

ExtractTry(did, att) ==
    IF did.kind = "raise" THEN ExtractExcept(did.text, att)
    ELSE IF did.none THEN ExtractExcept(NONE_STRIP_ERROR, att)
    ELSE LET loaded_json == json_loads(Strip(did.text))
         IN  IF loaded_json.kind = "return"
             THEN Leave(Returned(loaded_json.text))
             ELSE ExtractExcept(loaded_json.text, att)

\* ---- bot/handlers.py: what each handler shows for the outcome ----

_clean_error_message(error_str) ==
    LET low       == Lower(error_str)
        main_msg  == Strip(SplitHead(SplitHead(low, "violations {"), "links {"))
        clean_msg == Strip(Remove(Remove(main_msg, "failed to answer question:"),
                                  "(x)"))
    IN  IF AnyIn({"429", "quota", "limit exceeded", "rate"}, low)
        THEN CLEAN_AT_LIMIT
        ELSE IF AnyIn({"overloaded", "503", "busy"}, low)
        THEN CLEAN_BUSY
        ELSE IF clean_msg # "" THEN Capitalize(clean_msg)
        ELSE CLEAN_DEFAULT

SystemError(p) ==
    CASE p = "qa"           -> QA_SYSTEM_ERROR
      [] p = "deepdive"     -> DEEPDIVE_SYSTEM_ERROR
      [] p = "actionpoints" -> ACTIONS_SYSTEM_ERROR
      [] p = "simplify"     -> SIMPLIFY_SYSTEM_ERROR
      [] p = "summary"      -> SUMMARY_SYSTEM_ERROR

\* handle_message (Q&A), cmd_deepdive, cmd_actionpoints, the simplify branch
\* of handle_message and _send_summary: try / except ValueError / except
\* Exception around the call.
Reply(p, out) ==
    CASE out.kind = "ValueError" -> WARN \o out.text
      [] out.kind = "Exception"  -> SystemError(p)
      [] out.kind = "return" ->
            IF p = "qa" /\ out.text = NOT_COVERED THEN QA_NOT_COVERED_REPLY
            ELSE out.text

\* _handle_youtube_url: except ValueError around fetch_video_data.
UrlReply(out) ==
    CASE out.kind = "ValueError" -> WARN \o _clean_error_message(out.text)
      [] out.kind = "return"     -> TRANSCRIPT_EXTRACTED

-----------------------------------------------------------------------------
(* One request, from the handler's first message to its reply *)

AnalysisPaths == {"summary", "deepdive", "actionpoints", "simplify"}
Paths == {"qa", "load"} \cup AnalysisPaths

\* The request part at rest, in the specifications of the other parts.
CallRest ==
    /\ path = "none"
    /\ rpc = "idle"
    /\ attempt = 0
    /\ relevant = "n/a"
    /\ calls = << >>
    /\ slept = << >>
    /\ outcome = NoOutcome
    /\ shown = << >>

\* An update has reached its handler.
CallInit ==
    /\ path \in Paths
    /\ rpc = "start"
    /\ attempt = 0
    /\ relevant = "n/a"
    /\ calls = << >>
    /\ slept = << >>
    /\ outcome = NoOutcome
    /\ shown = << >>

\* handle_message: the "Searching" message, then answer_question up to its
\* loop: qa_index.search finds chunks, finds none, or raises.
QaStart ==
    /\ rpc = "start"
    /\ path = "qa"
    /\ shown' = Append(shown, Progress(path))
    /\ \E found \in {"chunks", "empty", "error"} :
        /\ relevant' = found
        /\ outcome' = CASE found = "chunks" -> NoOutcome
                        [] found = "empty"  -> Returned(NOT_COVERED)
                        [] found = "error"  -> OtherException("embedding failed")
        /\ rpc' = IF found = "chunks" THEN "try" ELSE "handler"
    /\ UNCHANGED <<path, attempt, calls, slept>>
    /\ CallFrame

\* The other handlers: the progress message, then the call.
OtherStart ==
    /\ rpc = "start"
    /\ path # "qa"
    /\ shown' = Append(shown, Progress(path))
    /\ rpc' = "try"
    /\ UNCHANGED <<path, attempt, relevant, calls, slept, outcome>>
    /\ CallFrame

\* One iteration of a retry loop: the provider does `did`, the loop body
\* `step` says what follows.
Iterate(did, step) ==
    /\ calls' = Append(calls, did)
    /\ IF step.sleep
       THEN /\ slept' = Append(slept, step.seconds)
            /\ rpc' = "sleep"
            /\ outcome' = outcome
       ELSE /\ slept' = slept
            /\ rpc' = "handler"
            /\ outcome' = step.out
    /\ UNCHANGED <<path, attempt, relevant, shown>>
    /\ CallFrame

\* time.sleep returns; `continue` takes the next attempt, or the loop is
\* over and the statement after it raises.
Wake(attempts, after) ==
    /\ rpc = "sleep"
    /\ IF attempt + 1 < attempts
       THEN /\ attempt' = attempt + 1
            /\ rpc' = "try"
            /\ outcome' = outcome
       ELSE /\ attempt' = attempt
            /\ rpc' = "handler"
            /\ outcome' = ValueError(after)
    /\ UNCHANGED <<path, relevant, calls, slept, shown>>
    /\ CallFrame

AnswerCall ==
    /\ rpc = "try"
    /\ path = "qa"
    /\ \E did \in ProviderOutcomes(AnswerContents) :
        Iterate(did, AnswerTry(did, attempt))

AnswerWake == path = "qa" /\ Wake(QA_ATTEMPTS, QA_BUSY)

CallAi ==
    /\ rpc = "try"
    /\ path \in AnalysisPaths
    /\ \E did \in ProviderOutcomes(AnalysisContents) :
        Iterate(did, CallAiTry(did, attempt))

CallAiWake == path \in AnalysisPaths /\ Wake(AI_ATTEMPTS, AI_BUSY)

ExtractCall ==
    /\ rpc = "try"
    /\ path = "load"
    /\ \E did \in ProviderOutcomes(TranscriptContents) :
        Iterate(did, ExtractTry(did, attempt))

ExtractWake ==
    path = "load" /\ Wake(EXTRACT_ATTEMPTS, TRANSCRIPTION_CONGESTION)

\* The handler's reply to the outcome of the call.
HandlerReply ==
    /\ rpc = "handler"
    /\ path # "load"
    /\ shown' = Append(shown, Reply(path, outcome))
    /\ rpc' = "done"
    /\ UNCHANGED <<path, attempt, relevant, calls, slept, outcome>>
    /\ CallFrame

UrlHandlerReply ==
    /\ rpc = "handler"
    /\ path = "load"
    /\ shown' = Append(shown, UrlReply(outcome))
    /\ rpc' = "done"
    /\ UNCHANGED <<path, attempt, relevant, calls, slept, outcome>>
    /\ CallFrame

CallNext ==
    \/ QaStart
    \/ OtherStart
    \/ AnswerCall
    \/ AnswerWake
    \/ CallAi
    \/ CallAiWake
    \/ ExtractCall
    \/ ExtractWake
    \/ HandlerReply
    \/ UrlHandlerReply

-----------------------------------------------------------------------------
(* bot/session.py, bot/cache.py and the handlers of bot/handlers.py that   *)
(* drive them. The Application of main.py is built without                 *)
(* concurrent_updates, so an update is handled to its end before the next  *)
(* one is taken: a handler is one step. The provider calls a handler makes *)
(* are followed in SpecCall; here only how they end is drawn, and a        *)
(* handler reads one time off the clock.                                   *)

Users == {1, 2}
Languages == {"English", "Hindi"}
VideoIds == {"vidA", "vidB", "vidE"}

\* How many updates are handled and how often the clock is moved.
MaxUpdates == 3
MaxTicks == 2

\* Python's None, and a dict with its pop and item assignment.
None == [none |-> TRUE]
EmptyDict == [k \in {} |-> None]
Pop(d, k) == [x \in DOMAIN d \ {k} |-> d[x]]
Put(d, k, v) == [x \in DOMAIN d \cup {k} |-> IF x = k THEN v ELSE d[x]]

\* A call that returns a value (one that raises is a ValueError(text)).
Ok(value) == [kind |-> "return", value |-> value]

\* ---- what the provider returns for a video (transcript.py) ----

RawItem(ts, sec, text) == [timestamp |-> ts, start_seconds |-> sec, text |-> text]

\* The parsed JSON of a transcription. The third video has no speech and the
\* provider answers with entries of blanks.
TranscriptJson(video_id) ==
    CASE video_id = "vidA" ->
            [title |-> "Alpha",
             transcript |-> <<RawItem("0:00", 0, "alpha one"),
                              RawItem("0:05", 5, " alpha two ")>>]
      [] video_id = "vidB" ->
            [title |-> "Beta",
             transcript |-> <<RawItem("0:00", 0, "beta one")>>]
      [] video_id = "vidE" ->
            [title |-> "Silence",
             transcript |-> <<RawItem("0:00", 0, " "),
                              RawItem("0:30", 30, "  ")>>]

NoTranscriptJson == [title |-> "YouTube Video", transcript |-> << >>]

NO_SPEECH == "(!) No speech content detected."

\* How _openrouter_extract_transcript can end for a video.
ExtractResults(video_id) ==
    {ValueError(TRANSCRIPTION_CONGESTION),
     Ok(TranscriptJson(video_id)),
     Ok(NoTranscriptJson)}

\* str.split() of a text, the form in which an entry's text is held.
RECURSIVE Words(_)
Words(s) ==
    LET t == LStrip(s)
    IN  IF t = "" THEN << >>
        ELSE LET stop == IF Contains(t, " ")
                         THEN FirstOccurrence(t, " ")
                         ELSE Len(t) + 1
             IN  <<SubSeq(t, 1, stop - 1)>> \o Words(From(t, stop))

\* @dataclass VideoData (the fields the bot's state depends on).
VideoData(video_id, title, es) ==
    [video_id |-> video_id, title |-> title, entries |-> es, chunks |-> << >>]

\* The list comprehension of _parse_response: `if item.get("text")` keeps
\* every item whose text is not the empty string; the text is then stripped.
RECURSIVE ParseEntries(_)
ParseEntries(items) ==
    IF items = << >> THEN << >>
    ELSE LET item == Head(items)
         IN  (IF item.text # ""
              THEN <<TranscriptEntry(item.timestamp, item.start_seconds,
                                     Words(Strip(item.text)))>>
              ELSE << >>) \o ParseEntries(Tail(items))

_parse_response(video_id, data) ==
    IF data.transcript = << >> THEN ValueError(NO_SPEECH)
    ELSE Ok(VideoData(video_id, data.title, ParseEntries(data.transcript)))

\* fetch_video_data, given how the extraction ended.
fetch_video_data(video_id, raw_json) ==
    IF raw_json.kind = "ValueError" THEN raw_json
    ELSE LET parsed == _parse_response(video_id, raw_json.value)
         IN  IF parsed.kind = "ValueError" THEN parsed
             ELSE Ok([parsed.value EXCEPT !.chunks =
                        chunk_transcript(parsed.value.entries,
                                         CHUNK_SIZE, CHUNK_OVERLAP)])

\* ---- bot/cache.py: the in-memory backend ----

CACHE_TTL == 86400

\* A variant of _Memory.get that never looks at the expiry.
MemoryGetForever(s, k, t) ==
    IF k \in DOMAIN s THEN [s |-> s, hit |-> TRUE, value |-> s[k].v]
    ELSE [s |-> s, hit |-> FALSE, value |-> None]

\* _Memory.get: the value if the entry has not expired; an expired entry is
\* deleted.
_Memory_get(s, k, t) ==
    IF k \in DOMAIN s /\ t < s[k].exp THEN [s |-> s, hit |-> TRUE, value |-> s[k].v]
    ELSE IF k \in DOMAIN s THEN [s |-> Pop(s, k), hit |-> FALSE, value |-> None]
    ELSE [s |-> s, hit |-> FALSE, value |-> None]

\* _Memory.set
_Memory_set(s, k, v, t) == Put(s, k, [v |-> v, exp |-> t + CACHE_TTL])

get_video(s, video_id, t) == _Memory_get(s, "v:" \o video_id, t)
set_video(s, video_id, data, t) == _Memory_set(s, "v:" \o video_id, data, t)
get_summary(s, video_id, lang, t) ==
    _Memory_get(s, "s:" \o video_id \o ":" \o lang, t)
set_summary(s, video_id, lang, text, t) ==
    _Memory_set(s, "s:" \o video_id \o ":" \o lang, text, t)

\* ---- bot/qa_engine.py: QAIndex ----

TOP_K == 4

NO_CHUNKS == "No transcript chunks available to index."

\* A variant that builds an index over whatever it is given.
QAIndexUnchecked(video) ==
    Ok([video_id |-> video.video_id, title |-> video.title,
        chunks |-> video.chunks])

\* QAIndex.__init__: raises on a video without chunks.
QAIndex(video) ==
    IF video.chunks = << >> THEN ValueError(NO_CHUNKS)
    ELSE Ok([video_id |-> video.video_id, title |-> video.title,
             chunks |-> video.chunks])

\* The orders in which the similarity scores can rank the chunks.
Rankings(qa_index) == Permutations(1..Len(qa_index.chunks))

\* What faiss puts at a position for which the index has no vector.
NO_LABEL == -1

\* self.chunks[i] for a position search was given: a position counts from 1
\* here; -1 is Python's index of the last element.
ChunkAt(qa_index, i) ==
    IF i = NO_LABEL THEN qa_index.chunks[Len(qa_index.chunks)]
    ELSE qa_index.chunks[i]

\* self.index.search(q, top_k): top_k labels, best first, -1 where the index
\* has no more vectors.
FaissLabels(n, ranking, top_k) ==
    [i \in 1..top_k |-> IF i <= n THEN ranking[i] ELSE NO_LABEL]

\* np.argsort(sims[:, 0])[::-1][:top_k], `ranking` being the reversed argsort.
NumpyTop(n, ranking, top_k) == [i \in 1..Min(top_k, n) |-> ranking[i]]

\* QAIndex.search, `ranking` being the order, best first, in which the
\* backend ranks the chunks. The filter `if i < len(self.chunks)` of the
\* faiss branch lets every label through, -1 included.
search(qa_index, ranking, top_k, faiss_ok) ==
    LET n == Len(qa_index.chunks)
        labels == IF faiss_ok THEN FaissLabels(n, ranking, top_k)
                  ELSE NumpyTop(n, ranking, top_k)
    IN  [i \in 1..Len(labels) |-> ChunkAt(qa_index, labels[i])]

\* ---- bot/session.py ----

TTL == 3600 * 6
HISTORY_CAP == 20

\* UserSession(chat_id=chat_id), created at time t.
UserSession(chat_id, t) ==
    [chat_id |-> chat_id, language |-> "English", video |-> None,
     qa_index |-> None, history |-> << >>, last_active |-> t]

has_video(session) == session.video # None /\ session.qa_index # None

\* A variant that leaves last_active as it is.
NoTouch(session, t) == session

touch(session, t) == [session EXCEPT !.last_active = t]

\* A variant that goes on with the conversation it had.
LoadVideoKeepHistory(session, video, t) ==
    LET assigned == [session EXCEPT !.video = video]
        built == QAIndex(video)
    IN  IF built.kind = "ValueError"
        THEN [raised |-> TRUE, error |-> built, session |-> assigned]
        ELSE [raised |-> FALSE, error |-> None,
              session |-> touch([assigned EXCEPT !.qa_index = built.value], t)]

\* load_video: the video is assigned first; if QAIndex raises, the rest of
\* the body is not run and the exception leaves the method.
load_video(session, video, t) ==
    LET assigned == [session EXCEPT !.video = video]
        built == QAIndex(video)
    IN  IF built.kind = "ValueError"
        THEN [raised |-> TRUE, error |-> built, session |-> assigned]
        ELSE [raised |-> FALSE, error |-> None,
              session |-> touch([assigned EXCEPT !.qa_index = built.value,
                                                 !.history = << >>], t)]

\* A variant that keeps the oldest entries.
AddHistoryKeepOldest(session, role, content) ==
    LET h == Append(session.history, [role |-> role, content |-> content])
    IN  [session EXCEPT !.history =
            IF Len(h) > HISTORY_CAP THEN SubSeq(h, 1, HISTORY_CAP) ELSE h]

add_history(session, role, content) ==
    LET h == Append(session.history, [role |-> role, content |-> content])
    IN  [session EXCEPT !.history =
            IF Len(h) > HISTORY_CAP
            THEN SubSeq(h, Len(h) - HISTORY_CAP + 1, Len(h))
            ELSE h]

\* A variant that expires a session at an idle time of TTL already.
IsExpiredAtTtl(session, t) == (t - session.last_active) >= TTL

is_expired(session, t) == (t - session.last_active) > TTL

\* A variant that sweeps nothing.
CleanupNothing(st, t) == st

\* SessionStore._cleanup
_cleanup(st, t) ==
    [c \in {c \in DOMAIN st : ~is_expired(st[c], t)} |-> st[c]]

\* A variant with one slot for every chat.
OneSlot(chat_id) == 1

\* self._store[chat_id]: the key under which a chat's session is held.
Slot(chat_id) == chat_id

\* SessionStore.get, with what it logs: the ids it found expired, and
\* whether it made a new session.
get(st, chat_id, t) ==
    LET swept == _cleanup(st, t)
        k == Slot(chat_id)
        made == IF k \in DOMAIN swept THEN swept
                ELSE Put(swept, k, UserSession(chat_id, t))
        store == Put(made, k, touch(made[k], t))
    IN  [op |-> "get", store |-> store, session |-> store[k],
         expired |-> DOMAIN st \ DOMAIN swept,
         new |-> k \notin DOMAIN swept]

\* A variant that does not pop the session.
ResetWithoutPop(st, chat_id, t) ==
    [get(st, chat_id, t) EXCEPT !.op = "reset"]

\* SessionStore.reset
reset(st, chat_id, t) ==
    [get(Pop(st, Slot(chat_id)), chat_id, t) EXCEPT !.op = "reset"]

\* ---- bot/handlers.py ----

\* How a generate_* call of the summarizer can end.
AnalysisResults == {Returned("5 Key Points ..."), ValueError(AI_BUSY)}

\* How answer_question can end once the chunks are retrieved.
AnswerResults ==
    {Returned("It says alpha."), Returned(NOT_COVERED),
     ValueError(QA_AT_CAPACITY)}

QUESTION == "what does it say?"

\* _send_summary: the cache after it.
_send_summary(s, session, gen, t) ==
    LET cached == get_summary(s, session.video.video_id, session.language, t)
    IN  IF cached.hit THEN cached.s
        ELSE IF gen.kind = "return"
        THEN set_summary(cached.s, session.video.video_id,
                         session.language, gen.text, t)
        ELSE cached.s

\* Before any update.
NoUpdate ==
    [op |-> "none", chat_id |-> 0, returned |-> None, expired |-> {},
     new |-> FALSE, load |-> "none", video_id |-> "none",
     retrieved |-> << >>]

\* The record of a handler that has called store.get or store.reset.
Did(u, g, load, video_id, retrieved) ==
    [op |-> g.op, chat_id |-> u, returned |-> g.session,
     expired |-> g.expired, new |-> g.new, load |-> load,
     video_id |-> video_id, retrieved |-> retrieved]

\* The videos handed to load_video in the session get has returned.
LoadedIn(u, g) == IF g.new THEN [loaded EXCEPT ![u] = {}] ELSE loaded

\* The session part at rest, in the specifications of the other parts.
SessionRest ==
    /\ _store = EmptyDict
    /\ _s = EmptyDict
    /\ now = 0
    /\ ticks = 0
    /\ updates = 0
    /\ last = NoUpdate
    /\ loaded = [u \in Users |-> {}]

\* store = SessionStore(), _c = _build(): the bot has started.
SessionInit == SessionRest

\* A handler that only looks at the session get returns.
Looked(u, g) ==
    /\ _store' = g.store
    /\ last' = Did(u, g, "none", "none", << >>)
    /\ loaded' = LoadedIn(u, g)
    /\ updates' = updates + 1
    /\ UNCHANGED <<now, ticks>>

cmd_reset ==
    \E u \in Users :
        /\ updates < MaxUpdates
        /\ Looked(u, reset(_store, u, now))
        /\ UNCHANGED _s
        /\ SessionFrame

\* /language with an argument sets the language, without one it shows it.
cmd_language ==
    \E u \in Users, args \in Languages \cup {""} :
        LET g == get(_store, u, now)
        IN  /\ updates < MaxUpdates
            /\ _store' = IF args # ""
                         THEN Put(g.store, Slot(u),
                                  [g.session EXCEPT !.language = args])
                         ELSE g.store
            /\ last' = Did(u, g, "none", "none", << >>)
            /\ loaded' = LoadedIn(u, g)
            /\ updates' = updates + 1
            /\ UNCHANGED <<_s, now, ticks>>
            /\ SessionFrame

cmd_summary ==
    \E u \in Users, gen \in AnalysisResults :
        LET g == get(_store, u, now)
        IN  /\ updates < MaxUpdates
            /\ Looked(u, g)
            /\ _s' = IF has_video(g.session)
                     THEN _send_summary(_s, g.session, gen, now)
                     ELSE _s
            /\ SessionFrame

cmd_deepdive ==
    \E u \in Users :
        /\ updates < MaxUpdates
        /\ Looked(u, get(_store, u, now))
        /\ UNCHANGED _s
        /\ SessionFrame

cmd_actionpoints ==
    \E u \in Users :
        /\ updates < MaxUpdates
        /\ Looked(u, get(_store, u, now))
        /\ UNCHANGED _s
        /\ SessionFrame

\* handle_message, the text asks for a language.
MessageLanguage ==
    \E u \in Users, lang \in Languages, gen \in AnalysisResults :
        LET g == get(_store, u, now)
            session == [g.session EXCEPT !.language = lang]
        IN  /\ updates < MaxUpdates
            /\ _store' = Put(g.store, Slot(u), session)
            /\ _s' = IF has_video(session)
                     THEN _send_summary(_s, session, gen, now)
                     ELSE _s
            /\ last' = Did(u, g, "none", "none", << >>)
            /\ loaded' = LoadedIn(u, g)
            /\ updates' = updates + 1
            /\ UNCHANGED <<now, ticks>>
            /\ SessionFrame

\* handle_message, the text is a YouTube URL: _handle_youtube_url.
MessageUrl ==
    \E u \in Users, video_id \in VideoIds, gen \in AnalysisResults :
    \E raw_json \in ExtractResults(video_id) :
        LET g == get(_store, u, now)
            cached == get_video(_s, video_id, now)
            fetched == IF cached.hit THEN Ok(cached.value)
                       ELSE fetch_video_data(video_id, raw_json)
        IN  /\ updates < MaxUpdates
            /\ updates' = updates + 1
            /\ UNCHANGED <<now, ticks>>
            /\ IF fetched.kind = "ValueError"
               THEN /\ _store' = g.store
                    /\ _s' = cached.s
                    /\ last' = Did(u, g, "none", video_id, << >>)
                    /\ loaded' = LoadedIn(u, g)
               ELSE LET video == fetched.value
                        s1 == IF cached.hit THEN cached.s
                              ELSE set_video(cached.s, video_id, video, now)
                        ld == load_video(g.session, video, now)
                    IN  /\ _store' = Put(g.store, Slot(u), ld.session)
                        /\ _s' = IF ld.raised THEN s1
                                 ELSE _send_summary(s1, ld.session, gen, now)
                        /\ last' = Did(u, g,
                                       IF ld.raised THEN "raised" ELSE "ok",
                                       video_id, << >>)
                        /\ loaded' = [LoadedIn(u, g) EXCEPT
                                        ![u] = @ \cup {video_id}]
            /\ SessionFrame

\* handle_message, the text asks to simplify.
MessageSimplify ==
    \E u \in Users :
        /\ updates < MaxUpdates
        /\ Looked(u, get(_store, u, now))
        /\ UNCHANGED _s
        /\ SessionFrame

\* handle_message, any other text: a question about the video.
MessageQuestion ==
    \E u \in Users, faiss_ok \in BOOLEAN, answer \in AnswerResults :
        LET g == get(_store, u, now)
        IN  /\ updates < MaxUpdates
            /\ updates' = updates + 1
            /\ loaded' = LoadedIn(u, g)
            /\ UNCHANGED <<_s, now, ticks>>
            /\ IF ~has_video(g.session)
               THEN /\ _store' = g.store
                    /\ last' = Did(u, g, "none", "none", << >>)
               ELSE \E ranking \in Rankings(g.session.qa_index) :
                    LET found == search(g.session.qa_index, ranking, TOP_K, faiss_ok)
                        asked == add_history(g.session, "user", QUESTION)
                        session ==
                            IF answer.kind = "ValueError" THEN g.session
                            ELSE IF answer.text = NOT_COVERED THEN asked
                            ELSE add_history(asked, "assistant", answer.text)
                    IN  /\ _store' = Put(g.store, Slot(u), session)
                        /\ last' = Did(u, g, "none", "none", found)
            /\ SessionFrame

\* Time passes between two updates.
Tick ==
    \E d \in {1, TTL, CACHE_TTL} :
        /\ ticks < MaxTicks
        /\ now' = now + d
        /\ ticks' = ticks + 1
        /\ UNCHANGED <<_store, _s, updates, last, loaded>>
        /\ SessionFrame

SessionNext ==
    \/ cmd_reset
    \/ cmd_language
    \/ cmd_summary
    \/ cmd_deepdive
    \/ cmd_actionpoints
    \/ MessageLanguage
    \/ MessageUrl
    \/ MessageSimplify
    \/ MessageQuestion
    \/ Tick

-----------------------------------------------------------------------------
(* QAIndex.search on an index of a few chunks: the scores of the chunks,   *)
(* top_k and the backend are drawn, and search is run once.                *)

MaxChunks == 3
MaxScore == 2
MaxTopK == 4

\* An index over n chunks, chunk i holding the one word i.
IndexOf(n) ==
    [video_id |-> "vid", title |-> "T",
     chunks |-> [i \in 1..n |-> Chunk(<<i>>, i, 30 * (i - 1))]]

Reverse(seq) == [i \in 1..Len(seq) |-> seq[Len(seq) + 1 - i]]

\* np.argsort(sims[:, 0]): the positions in ascending order of score. The
\* default kind is not a stable sort: equal scores come in any order.
argsort(sims) ==
    {p \in Permutations(1..Len(sims)) :
        \A i, j \in 1..Len(sims) : i < j => sims[p[i]] <= sims[p[j]]}

\* The order of the labels of IndexFlatIP.search: descending inner product,
\* equal products in the order the result heap leaves them.
FaissOrders(sims) ==
    {p \in Permutations(1..Len(sims)) :
        \A i, j \in 1..Len(sims) : i < j => sims[p[i]] >= sims[p[j]]}

SearchRest ==
    /\ scores = << >>
    /\ asked_k = TOP_K
    /\ backend = FALSE
    /\ hits = << >>
    /\ spc = "idle"

\* search(query, top_k) is called on an index.
SearchInit ==
    /\ \E n \in 1..MaxChunks : scores \in [1..n -> 1..MaxScore]
    /\ asked_k \in 1..MaxTopK
    /\ backend \in BOOLEAN
    /\ hits = << >>
    /\ spc = "call"

\* The branch `if FAISS_OK and self.index`.
SearchFaiss ==
    /\ spc = "call"
    /\ backend
    /\ \E ranking \in FaissOrders(scores) :
          hits' = search(IndexOf(Len(scores)), ranking, asked_k, TRUE)
    /\ spc' = "done"
    /\ UNCHANGED <<scores, asked_k, backend>>
    /\ SearchFrame

\* The else branch: the numpy fallback.
SearchNumpy ==
    /\ spc = "call"
    /\ ~backend
    /\ \E p \in argsort(scores) :
          hits' = search(IndexOf(Len(scores)), Reverse(p), asked_k, FALSE)
    /\ spc' = "done"
    /\ UNCHANGED <<scores, asked_k, backend>>
    /\ SearchFrame

SearchNext == SearchFaiss \/ SearchNumpy

-----------------------------------------------------------------------------
(* bot/cache.py: the two backends behind get_video, set_video, get_summary *)
(* and set_summary, and the use _handle_youtube_url makes of them.         *)

MaxCacheOps == 3
MaxCacheTicks == 2

CacheKeys == {"v:vidA", "s:vidA:English"}
CacheValues == {"x", "y"}

\* pickle.dumps and pickle.loads
Pickled(v) == [pickle |-> v]
Unpickled(d) == d.pickle

\* The name under which _Redis keeps a key.
RedisKey(k) == "ytbot:" \o k

\* self.r.get(name) on a server whose keys expire: the bytes, or nothing.
ServerGet(srv, name, t) ==
    IF name \in DOMAIN srv /\ t < srv[name].exp
    THEN [srv |-> srv, d |-> srv[name].v, nil |-> FALSE]
    ELSE [srv |-> Pop(srv, name), d |-> None, nil |-> TRUE]

\* self.r.setex(name, TTL, value)
ServerSetex(srv, name, ttl, d, t) == Put(srv, name, [v |-> d, exp |-> t + ttl])

\* Variants in which the failure of the Redis call leaves the method.
RedisGetRaises(srv, k, t, fail) ==
    IF fail THEN [s |-> srv, hit |-> FALSE, value |-> None, raised |-> TRUE]
    ELSE LET got == ServerGet(srv, RedisKey(k), t)
         IN  [s |-> got.srv, hit |-> ~got.nil,
              value |-> IF got.nil THEN None ELSE Unpickled(got.d),
              raised |-> FALSE]

\* _Redis.get: `fail` is the Redis call raising; the except branch logs and
\* returns None.
_Redis_get(srv, k, t, fail) ==
    IF fail THEN [s |-> srv, hit |-> FALSE, value |-> None, raised |-> FALSE]
    ELSE LET got == ServerGet(srv, RedisKey(k), t)
         IN  [s |-> got.srv, hit |-> ~got.nil,
              value |-> IF got.nil THEN None ELSE Unpickled(got.d),
              raised |-> FALSE]

\* _Redis.set: the except branch logs.
_Redis_set(srv, k, v, t, fail) ==
    IF fail THEN [s |-> srv, raised |-> FALSE]
    ELSE [s |-> ServerSetex(srv, RedisKey(k), CACHE_TTL, Pickled(v), t),
          raised |-> FALSE]

\* _c.get(k) and _c.set(k, v) on the backend in use.
CacheGetOn(redis, s, k, t, fail) ==
    IF redis THEN _Redis_get(s, k, t, fail)
    ELSE LET got == _Memory_get(s, k, t)
         IN  [s |-> got.s, hit |-> got.hit, value |-> got.value,
              raised |-> FALSE]

CacheSetOn(redis, s, k, v, t, fail) ==
    IF redis THEN _Redis_set(s, k, v, t, fail)
    ELSE [s |-> _Memory_set(s, k, v, t), raised |-> FALSE]

\* What fetch_video_data returns in the request below.
FETCHED == "fetched"

NoOp ==
    [op |-> "none", k |-> "", v |-> None, at |-> 0, failed |-> FALSE,
     hit |-> FALSE, value |-> None, raised |-> FALSE]

NeverWritten == [v |-> None, at |-> 0, ok |-> FALSE, any |-> FALSE]

CacheRest ==
    /\ use_redis = FALSE
    /\ kept = EmptyDict
    /\ clock = 0
    /\ cticks = 0
    /\ cops = 0
    /\ clast = NoOp
    /\ written = [k \in CacheKeys |-> NeverWritten]

\* _c = _build(): a _Redis if USE_REDIS is set and the server answers, else
\* a _Memory.
CacheInit ==
    /\ use_redis \in BOOLEAN
    /\ kept = EmptyDict
    /\ clock = 0
    /\ cticks = 0
    /\ cops = 0
    /\ clast = NoOp
    /\ written = [k \in CacheKeys |-> NeverWritten]

\* _c.set(k, v); on Redis the call may fail.
CacheSet ==
    \E k \in CacheKeys, v \in CacheValues, fail \in BOOLEAN :
        LET did == CacheSetOn(use_redis, kept, k, v, clock, fail)
        IN  /\ cops < MaxCacheOps
            /\ fail => use_redis
            /\ kept' = did.s
            /\ clast' = [op |-> "set", k |-> k, v |-> v, at |-> clock,
                         failed |-> fail, hit |-> FALSE, value |-> None,
                         raised |-> did.raised]
            /\ written' = [written EXCEPT ![k] =
                              [v |-> v, at |-> clock, ok |-> ~fail,
                               any |-> TRUE]]
            /\ cops' = cops + 1
            /\ UNCHANGED <<use_redis, clock, cticks>>
            /\ CacheFrame

\* _c.get(k); on Redis the call may fail.
CacheGet ==
    \E k \in CacheKeys, fail \in BOOLEAN :
        LET did == CacheGetOn(use_redis, kept, k, clock, fail)
        IN  /\ cops < MaxCacheOps
            /\ fail => use_redis
            /\ kept' = did.s
            /\ clast' = [op |-> "get", k |-> k, v |-> None, at |-> clock,
                         failed |-> fail, hit |-> did.hit,
                         value |-> IF did.hit THEN did.value ELSE None,
                         raised |-> did.raised]
            /\ cops' = cops + 1
            /\ UNCHANGED <<use_redis, clock, cticks, written>>
            /\ CacheFrame

\* The cache in _handle_youtube_url: get_video, and on a miss
\* fetch_video_data and set_video; the video goes on to load_video. An
\* exception of the cache would leave the try block before load_video.
CacheRequest ==
    \E fail_get \in BOOLEAN, fail_set \in BOOLEAN :
        LET k == "v:vidA"
            got == CacheGetOn(use_redis, kept, k, clock, fail_get)
            put == CacheSetOn(use_redis, got.s, k, FETCHED, clock, fail_set)
            miss == ~got.raised /\ ~got.hit
        IN  /\ cops < MaxCacheOps
            /\ (fail_get \/ fail_set) => use_redis
            /\ fail_set => ~(~fail_get /\ got.hit)
            /\ kept' = IF miss THEN put.s ELSE got.s
            /\ clast' = [op |-> "request", k |-> k, v |-> None, at |-> clock,
                         failed |-> fail_get \/ fail_set,
                         hit |-> got.hit,
                         value |-> IF got.raised \/ (miss /\ put.raised)
                                   THEN None
                                   ELSE IF got.hit THEN got.value
                                   ELSE FETCHED,
                         raised |-> got.raised \/ (miss /\ put.raised)]
            /\ written' = IF miss
                          THEN [written EXCEPT ![k] =
                                  [v |-> FETCHED, at |-> clock,
                                   ok |-> ~fail_set, any |-> TRUE]]
                          ELSE written
            /\ cops' = cops + 1
            /\ UNCHANGED <<use_redis, clock, cticks>>
            /\ CacheFrame

\* Time passes between two operations.
CacheTick ==
    \E d \in {1, CACHE_TTL - 1} :
        /\ cticks < MaxCacheTicks
        /\ clock' = clock + d
        /\ cticks' = cticks + 1
        /\ UNCHANGED <<use_redis, kept, cops, clast, written>>
        /\ CacheFrame

CacheNext == CacheSet \/ CacheGet \/ CacheRequest \/ CacheTick

-----------------------------------------------------------------------------
(* A long conversation in one session: add_history called again and again. *)
(* The n-th entry handed over has the content n.                           *)

MaxAppends == 4

Roles == {"user", "assistant"}

\* A session into which k entries have been added, user and assistant in
\* turn.
RECURSIVE Talked(_)
Talked(k) ==
    IF k = 0 THEN UserSession(1, 0)
    ELSE add_history(Talked(k - 1),
                     IF k % 2 = 1 THEN "user" ELSE "assistant", k)

HistoryRest ==
    /\ talking = UserSession(1, 0)
    /\ appended = << >>
    /\ added = 0

\* A session with a conversation of up to HISTORY_CAP entries behind it.
HistoryInit ==
    \E k \in 0..HISTORY_CAP :
        /\ talking = Talked(k)
        /\ appended = Talked(k).history
        /\ added = 0

\* session.add_history(role, content)
AddHistory ==
    \E role \in Roles :
        LET content == Len(appended) + 1
        IN  /\ added < MaxAppends
            /\ added' = added + 1
            /\ talking' = add_history(talking, role, content)
            /\ appended' = Append(appended,
                                  [role |-> role, content |-> content])
            /\ HistoryFrame

HistoryNext == AddHistory

-----------------------------------------------------------------------------
(* The updates of several chats through the Application of main.py.        *)
(* Application.builder().token(token).build() leaves concurrent_updates    *)
(* off: the Application awaits the handler of an update before it takes    *)
(* the next update from its queue. The retry loops call time.sleep, which  *)
(* holds the one thread the event loop runs on. A session is an object: a  *)
(* handler keeps the reference store.get gave it, whatever the store holds *)
(* afterwards. The waits (210 seconds at most) are far below TTL, so no    *)
(* session expires here; expiry is followed in SpecSession.                *)

MaxLoopUpdates == 3

LoopKinds == {"reset", "url", "question"}

\* _model = None
NoModel == 0

\* No session object: the handler has not called store.get yet.
NoObject == 0

\* UserSession(chat_id=chat_id): no video, no index, an empty history.
NewObject == [video |-> FALSE, index |-> FALSE, history |-> 0]

\* The positions of a handler inside time.sleep.
Sleeping == {"sleep_fetch", "sleep_summary", "sleep_answer"}

\* A handler that has started and has not returned.
InProgress(p) == p \notin {"queued", "done"}

\* A variant of the Application that starts a handler for any queued update
\* (concurrent_updates on).
Concurrently(i) == TRUE

\* The Application without concurrent_updates: it takes update i once the
\* handlers of the updates before it have returned.
Sequential(i) == \A j \in 1..(i - 1) : hpc[j] = "done"

\* A handler is inside time.sleep: the thread of the event loop is held.
LoopHeld == \E j \in 1..Len(hpc) : hpc[j] \in Sleeping

\* A variant that makes a SentenceTransformer on every call.
GetModelAlways(m, n) == [model |-> n + 1, made |-> n + 1]

\* embedder._get_model, m being _model and n the number of
\* SentenceTransformer objects made so far.
_get_model(m, n) ==
    IF m = NoModel THEN [model |-> n + 1, made |-> n + 1]
    ELSE [model |-> m, made |-> n]

\* store.get(chat_id), by object.
store_get(st, objs, chat_id) ==
    IF chat_id \in DOMAIN st
    THEN [store |-> st, objects |-> objs, session |-> st[chat_id]]
    ELSE LET made == Len(objs) + 1
         IN  [store |-> Put(st, chat_id, made),
              objects |-> Append(objs, NewObject), session |-> made]

\* store.reset(chat_id), by object.
store_reset(st, objs, chat_id) == store_get(Pop(st, chat_id), objs, chat_id)

\* The loop part at rest, in the specifications of the other parts.
LoopRest ==
    /\ inbox = << >>
    /\ hpc = << >>
    /\ holds = << >>
    /\ tries = << >>
    /\ sessions = EmptyDict
    /\ objects = << >>
    /\ _model = NoModel
    /\ models_made = 0
    /\ embeds = 0

\* run_polling has started, nobody has written yet.
LoopInit == LoopRest

\* A user sends a message or a command.
Arrive ==
    \E chat_id \in Users, kind \in LoopKinds :
        /\ Len(inbox) < MaxLoopUpdates
        /\ inbox' = Append(inbox, [chat |-> chat_id, kind |-> kind])
        /\ hpc' = Append(hpc, "queued")
        /\ holds' = Append(holds, NoObject)
        /\ tries' = Append(tries, 0)
        /\ UNCHANGED <<sessions, objects, _model, models_made, embeds>>
        /\ LoopFrame

\* The handler of update i runs from its first line to its first call that
\* can take long: cmd_reset to its end; handle_message through store.get and
\* the "watching the video" or "Searching" message.
TakeUpdate(i) ==
    /\ hpc[i] = "queued"
    /\ Sequential(i)
    /\ ~LoopHeld
    /\ LET u == inbox[i]
           g == IF u.kind = "reset"
                THEN store_reset(sessions, objects, u.chat)
                ELSE store_get(sessions, objects, u.chat)
       IN  /\ sessions' = g.store
           /\ objects' = g.objects
           /\ holds' = [holds EXCEPT ![i] = g.session]
           /\ hpc' = [hpc EXCEPT ![i] =
                        CASE u.kind = "reset" -> "done"
                          [] u.kind = "url"   -> "fetch"
                          [] u.kind = "question" ->
                                IF g.objects[g.session].video
                                    /\ g.objects[g.session].index
                                THEN "search" ELSE "done"]
    /\ UNCHANGED <<inbox, tries, _model, models_made, embeds>>
    /\ LoopFrame

Take == \E i \in 1..Len(inbox) : TakeUpdate(i)

\* A call with a retry loop ends: with a result, with a failure the loop
\* sleeps on, or with one it raises on.
CallEnds == {"ok", "transient", "permanent"}

\* _handle_youtube_url: get_video, and fetch_video_data on a miss.
Fetch ==
    \E i \in 1..Len(inbox), end \in CallEnds :
        /\ hpc[i] = "fetch"
        /\ ~LoopHeld
        /\ hpc' = [hpc EXCEPT ![i] =
                     CASE end = "ok"        -> "index"
                       [] end = "transient" -> "sleep_fetch"
                       [] end = "permanent" -> "done"]
        /\ UNCHANGED <<inbox, holds, tries, sessions, objects, _model,
                       models_made, embeds>>
        /\ LoopFrame

\* session.load_video(video) on the object the handler holds: QAIndex raises
\* on a video without chunks, else embed_texts runs.
Index ==
    \E i \in 1..Len(inbox), empty \in BOOLEAN :
        LET o == holds[i]
            m == _get_model(_model, models_made)
        IN  /\ hpc[i] = "index"
            /\ ~LoopHeld
            /\ IF empty
               THEN /\ objects' = [objects EXCEPT ![o].video = TRUE]
                    /\ hpc' = [hpc EXCEPT ![i] = "done"]
                    /\ UNCHANGED <<_model, models_made, embeds>>
               ELSE /\ objects' = [objects EXCEPT ![o] =
                            [video |-> TRUE, index |-> TRUE, history |-> 0]]
                    /\ hpc' = [hpc EXCEPT ![i] = "summary"]
                    /\ _model' = m.model
                    /\ models_made' = m.made
                    /\ embeds' = embeds + 1
            /\ tries' = [tries EXCEPT ![i] = 0]
            /\ UNCHANGED <<inbox, holds, sessions>>
            /\ LoopFrame

\* _send_summary: get_summary, and generate_summary on a miss.
Summary ==
    \E i \in 1..Len(inbox), end \in CallEnds :
        /\ hpc[i] = "summary"
        /\ ~LoopHeld
        /\ hpc' = [hpc EXCEPT ![i] =
                     IF end = "transient" THEN "sleep_summary" ELSE "done"]
        /\ UNCHANGED <<inbox, holds, tries, sessions, objects, _model,
                       models_made, embeds>>
        /\ LoopFrame

\* answer_question: qa_index.search, which calls embed_query.
Search ==
    \E i \in 1..Len(inbox) :
        LET m == _get_model(_model, models_made)
        IN  /\ hpc[i] = "search"
            /\ ~LoopHeld
            /\ hpc' = [hpc EXCEPT ![i] = "answer"]
            /\ _model' = m.model
            /\ models_made' = m.made
            /\ embeds' = embeds + 1
            /\ UNCHANGED <<inbox, holds, tries, sessions, objects>>
            /\ LoopFrame

\* answer_question: one provider call; handle_message adds the turns to the
\* history of the object it holds.
Answer ==
    \E i \in 1..Len(inbox),
       end \in {"answer", "sentinel", "transient", "permanent"} :
        LET o == holds[i]
            turns == CASE end = "answer" -> 2 [] end = "sentinel" -> 1
                       [] OTHER -> 0
        IN  /\ hpc[i] = "answer"
            /\ ~LoopHeld
            /\ hpc' = [hpc EXCEPT ![i] =
                         IF end = "transient" /\ QaMayRetry(tries[i])
                         THEN "sleep_answer" ELSE "done"]
            /\ objects' = [objects EXCEPT ![o].history =
                             Min(@ + turns, HISTORY_CAP)]
            /\ UNCHANGED <<inbox, holds, tries, sessions, _model,
                           models_made, embeds>>
            /\ LoopFrame

\* range(n) of the loop the handler sleeps in.
AttemptsAt(p) ==
    CASE p = "sleep_fetch"   -> EXTRACT_ATTEMPTS
      [] p = "sleep_summary" -> AI_ATTEMPTS
      [] p = "sleep_answer"  -> QA_ATTEMPTS

\* The call a loop repeats.
CallAt(p) ==
    CASE p = "sleep_fetch"   -> "fetch"
      [] p = "sleep_summary" -> "summary"
      [] p = "sleep_answer"  -> "answer"

\* time.sleep returns: the next attempt, or the raise after the loop.
WakeUp ==
    \E i \in 1..Len(inbox) :
        /\ hpc[i] \in Sleeping
        /\ tries' = [tries EXCEPT ![i] = @ + 1]
        /\ hpc' = [hpc EXCEPT ![i] =
                     IF tries[i] + 1 < AttemptsAt(hpc[i])
                     THEN CallAt(hpc[i]) ELSE "done"]
        /\ UNCHANGED <<inbox, holds, sessions, objects, _model, models_made,
                       embeds>>
        /\ LoopFrame

LoopNext ==
    \/ Arrive
    \/ Take
    \/ Fetch
    \/ Index
    \/ Summary
    \/ Search
    \/ Answer
    \/ WakeUp

-----------------------------------------------------------------------------
(* The Q&A branch of handle_message on a session with a video and a        *)
(* conversation: answer_question is called with the session's index and    *)
(* history (the lists themselves, not copies), then the handler records    *)
(* the turns. The call and the recording are two steps, so that what the   *)
(* call alone does to its arguments can be seen.                           *)

\* history[-6:] takes the last 6 entries.
HISTORY_TURNS == 6

LastOf(list, n) ==
    IF Len(list) <= n THEN list
    ELSE SubSeq(list, Len(list) - n + 1, Len(list))

\* A variant that cuts the list itself down to its last n entries.
SliceInPlace(list, n) == [list |-> LastOf(list, n), pairs |-> LastOf(list, n)]

\* pairs = history[-n:]: a new list; the list sliced is left as it is.
Slice(list, n) == [list |-> list, pairs |-> LastOf(list, n)]

\* The `for attempt in range(2)` loop of answer_question to its end, did1
\* and did2 being what the provider does on the first and on the second
\* call.
AnswerLoop(did1, did2) ==
    LET first == AnswerTry(did1, 0)
    IN  IF first.sleep THEN AnswerTry(did2, 1).out ELSE first.out

\* What answer_question meets outside its arguments: whether embed_query
\* gives a vector (else its exception leaves the function), the backend and
\* the order in which it ranks the chunks, and what the provider does on
\* the first and on the second call.
Surroundings(qa_index) ==
    [embedded : BOOLEAN, faiss_ok : BOOLEAN, ranking : Rankings(qa_index),
     did1 : ProviderOutcomes(AnswerContents),
     did2 : ProviderOutcomes(AnswerContents)]

\* answer_question: what it returns or raises, and its arguments qa_index
\* and history as they are after the call.
answer_question(qa_index, question, language, history, env) ==
    LET retrieved == IF env.embedded
                     THEN search(qa_index, env.ranking, TOP_K, env.faiss_ok)
                     ELSE << >>
        sliced == IF env.embedded /\ retrieved # << >> /\ history # << >>
                  THEN Slice(history, HISTORY_TURNS)
                  ELSE [list |-> history, pairs |-> << >>]
    IN  [out |-> IF ~env.embedded THEN OtherException("embedding failed")
                 ELSE IF retrieved = << >> THEN Returned(NOT_COVERED)
                 ELSE AnswerLoop(env.did1, env.did2),
         qa_index |-> qa_index,
         history |-> sliced.list,
         pairs |-> sliced.pairs]

\* A variant that records whatever answer_question returned.
QaRecordAll(session, text, out) ==
    IF out.kind # "return" THEN session
    ELSE add_history(add_history(session, "user", text), "assistant", out.text)

\* handle_message after answer_question: the user turn, then the assistant
\* turn unless the answer is the sentinel; nothing in the except branches.
QaRecord(session, text, out) ==
    IF out.kind # "return" THEN session
    ELSE LET asked == add_history(session, "user", text)
         IN  IF out.text = NOT_COVERED THEN asked
             ELSE add_history(asked, "assistant", out.text)

\* A session after k turns of a conversation, user and assistant in turn.
RECURSIVE Conversed(_, _)
Conversed(session, k) ==
    IF k = 0 THEN session
    ELSE add_history(Conversed(session, k - 1),
                     IF k % 2 = 1 THEN "user" ELSE "assistant",
                     IF k % 2 = 1 THEN "and then?" ELSE "It says beta.")

\* A session that has loaded the first video.
Watching ==
    load_video(UserSession(1, 0),
               fetch_video_data("vidA", Ok(TranscriptJson("vidA"))).value,
               0).session

NotAsked == [history |-> << >>, qa_index |-> None]

\* The Q&A part at rest, in the specifications of the other parts.
AnswerRest ==
    /\ asking = UserSession(1, 0)
    /\ given = NotAsked
    /\ answered = NoOutcome
    /\ qpc = "idle"

\* A question has reached handle_message, in a session with a video and a
\* conversation of up to HISTORY_CAP entries.
AnswerInit ==
    /\ \E k \in 0..HISTORY_CAP, lang \in Languages :
          asking = [Conversed(Watching, k) EXCEPT !.language = lang]
    /\ given = NotAsked
    /\ answered = NoOutcome
    /\ qpc = "call"

\* answer = answer_question(qa_index=session.qa_index, question=text,
\*                          language=session.language, history=session.history)
AskQuestion ==
    \E env \in Surroundings(asking.qa_index) :
        LET a == answer_question(asking.qa_index, QUESTION, asking.language,
                                 asking.history, env)
        IN  /\ qpc = "call"
            /\ given' = [history |-> asking.history,
                         qa_index |-> asking.qa_index]
            /\ asking' = [asking EXCEPT !.history = a.history,
                                        !.qa_index = a.qa_index]
            /\ answered' = a.out
            /\ qpc' = "answered"
            /\ AnswerFrame

\* The rest of the try block of handle_message, or its except branches.
RecordTurns ==
    /\ qpc = "answered"
    /\ asking' = QaRecord(asking, QUESTION, answered)
    /\ qpc' = "replied"
    /\ UNCHANGED <<given, answered>>
    /\ AnswerFrame

AnswerNext == AskQuestion \/ RecordTurns

-----------------------------------------------------------------------------
(* Specifications *)

InitChunk ==
    ChunkInit /\ CallRest /\ SessionRest /\ SearchRest
    /\ CacheRest /\ HistoryRest /\ LoopRest /\ AnswerRest

SpecChunk == InitChunk /\ [][ChunkNext]_vars

InitCall ==
    CallInit /\ ChunkRest /\ SessionRest /\ SearchRest
    /\ CacheRest /\ HistoryRest /\ LoopRest /\ AnswerRest

SpecCall == InitCall /\ [][CallNext]_vars

InitSession ==
    SessionInit /\ ChunkRest /\ CallRest /\ SearchRest
    /\ CacheRest /\ HistoryRest /\ LoopRest /\ AnswerRest

SpecSession == InitSession /\ [][SessionNext]_vars

InitSearch ==
    SearchInit /\ ChunkRest /\ CallRest /\ SessionRest
    /\ CacheRest /\ HistoryRest /\ LoopRest /\ AnswerRest

SpecSearch == InitSearch /\ [][SearchNext]_vars

InitCache ==
    CacheInit /\ ChunkRest /\ CallRest /\ SessionRest
    /\ SearchRest /\ HistoryRest /\ LoopRest /\ AnswerRest

SpecCache == InitCache /\ [][CacheNext]_vars

InitHistory ==
    HistoryInit /\ ChunkRest /\ CallRest /\ SessionRest
    /\ SearchRest /\ CacheRest /\ LoopRest /\ AnswerRest

SpecHistory == InitHistory /\ [][HistoryNext]_vars

InitLoop ==
    LoopInit /\ ChunkRest /\ CallRest /\ SessionRest /\ SearchRest
    /\ CacheRest /\ HistoryRest /\ AnswerRest

SpecLoop == InitLoop /\ [][LoopNext]_vars

InitAnswer ==
    AnswerInit /\ ChunkRest /\ CallRest /\ SessionRest
    /\ SearchRest /\ CacheRest /\ HistoryRest /\ LoopRest

SpecAnswer == InitAnswer /\ [][AnswerNext]_vars

-----------------------------------------------------------------------------
(* Claims about chunk_transcript, checked under SpecChunk *)

ChunkDone == cpc = "done"

\* The last n words of a word sequence, n <= Len(words).
LastWords(words, n) == SubSeq(words, Len(words) - n + 1, Len(words))

\* The entry that holds word w of the transcript.
EntryOfWord(w) == CHOOSE i \in 1..Len(entries) : w \in Range(entries[i].text)

\* The words of chunk k that chunk k-1 does not hold (all of them for k = 1).
NewWords(k) ==
    IF k = 1 THEN Range(chunks[k].text)
    ELSE Range(chunks[k].text) \ Range(chunks[k - 1].text)

\* The entries that can be said to open the window of chunk k: from the entry
\* that holds the chunk's first word to the entry that brought the first word
\* chunk k-1 does not hold (to the last entry when there is no such word).
OpeningEntries(k) ==
    LET first == EntryOfWord(chunks[k].text[1])
        fresh == {EntryOfWord(w) : w \in NewWords(k)}
        upto  == IF fresh = {} THEN Len(entries)
                 ELSE CHOOSE i \in fresh : \A j \in fresh : i <= j
    IN  first..upto

\* C7 (as claimed): for an overlap O < size S, O = 0 included, every chunk
\* after the first, except possibly the last, begins with exactly the last O
\* words of the chunk before it and shares no further word with it.
C7_OverlapExactlyO ==
    (ChunkDone /\ overlap < size) =>
        \A k \in 2..(Len(chunks) - 1) :
            LET prev == chunks[k - 1].text
                cur  == chunks[k].text
            IN  /\ Len(cur) >= overlap
                /\ Len(prev) >= overlap
                /\ SubSeq(cur, 1, overlap) = LastWords(prev, overlap)
                /\ Range(cur) \cap Range(prev) = Range(LastWords(prev, overlap))

\* C8 (as claimed): every chunk, not only the first, carries the timestamp
\* and start_seconds of the entry that opened its window (stated for the
\* configurations with overlap < size only).
C8_TimestampOfOpeningEntry ==
    (ChunkDone /\ overlap < size) =>
        \A k \in 1..Len(chunks) :
            \E i \in OpeningEntries(k) :
                /\ chunks[k].timestamp = entries[i].timestamp
                /\ chunks[k].start_seconds = entries[i].start_seconds

\* C9: every chunk has at least size words, except possibly the last one
\* (the flushed tail); a chunk emitted inside the loop is never the short one.
C9_ChunksReachSize ==
    \A k \in 1..Len(chunks) :
        (k < Len(chunks) \/ ~ChunkDone) => Len(chunks[k].text) >= size

C9_Witness ==
    /\ ChunkDone
    /\ Len(chunks) >= 3
    /\ Len(chunks[Len(chunks)].text) < size
    /\ \E k \in 1..(Len(chunks) - 1) : Len(chunks[k].text) > size

\* C10 (as claimed): 3 entries of 900 words together, size 400, overlap 50,
\* give 3 chunks however the words are distributed: two windows of 400 words
\* and a shorter tail.
C10_ThreeChunksAlways ==
    (ChunkDone /\ IsScenario) =>
        /\ Len(chunks) = 3
        /\ Len(chunks[1].text) = 400
        /\ Len(chunks[2].text) = 400
        /\ Len(chunks[3].text) < 400

\* C10 (amended): the scenario gives 2 or 3 chunks; every chunk but the last
\* has at least 400 words and the last has fewer than 400; the chunks are the
\* claimed 400, 400 and a shorter tail when the entries end at those windows
\* (400, 350 and 150 words).
C10_TwoOrThreeChunks ==
    (ChunkDone /\ IsScenario) =>
        /\ Len(chunks) \in {2, 3}
        /\ \A k \in 1..(Len(chunks) - 1) : Len(chunks[k].text) >= 400
        /\ Len(chunks[Len(chunks)].text) < 400
        /\ (Len(entries[1].text) = 400 /\ Len(entries[2].text) = 350) =>
               /\ Len(chunks) = 3
               /\ Len(chunks[1].text) = 400
               /\ Len(chunks[2].text) = 400
               /\ Len(chunks[3].text) = 200

C10_Witness ==
    /\ ChunkDone
    /\ IsScenario
    /\ Len(entries[1].text) = 400
    /\ Len(entries[2].text) = 350
    /\ Len(chunks) = 3

-----------------------------------------------------------------------------
(* Claims about one request, checked under SpecCall *)

\* The text of the exception call number n ended with inside the try block
\* ("" when the call gave a usable response).
FailureText(did) ==
    IF did.kind = "raise" THEN did.text
    ELSE IF did.none THEN NONE_STRIP_ERROR
    ELSE ""

Failed(did) == did.kind = "raise" \/ did.none

\* A failure that carries a rate-limit or quota signal.
QaTransient(did) ==
    Failed(did) /\ AnyIn({"429", "rate", "limit", "quota"}, Lower(FailureText(did)))

C5_NoRawExceptionText ==
    \A i \in 1..Len(shown) :
        \A n \in 1..Len(calls) :
            calls[n].kind = "raise" =>
                ~Contains(Lower(shown[i]), Lower(calls[n].text))

\* The words of all entries, in order.
RECURSIVE WordSequence(_)
WordSequence(es) ==
    IF es = << >> THEN << >> ELSE Head(es).text \o WordSequence(Tail(es))

\* text is seq[a], seq[a + 1], ... for some position a.
IsRunOf(text, seq) ==
    /\ text # << >>
    /\ \E a \in {p \in 1..Len(seq) : seq[p] = text[1]} :
          /\ a + Len(text) - 1 <= Len(seq)
          /\ text = SubSeq(seq, a, a + Len(text) - 1)

\* C29: the text of every chunk is a contiguous run of the transcript's word
\* sequence; when the chunker has returned, every word of every entry is in
\* at least one chunk, and there is no chunk exactly when the entries hold no
\* word.
C29_ChunksAreRunsAndCover ==
    LET seq == WordSequence(entries)
    IN  /\ \A k \in 1..Len(chunks) : IsRunOf(chunks[k].text, seq)
        /\ ChunkDone =>
              /\ \A p \in 1..Len(seq) :
                    \E k \in 1..Len(chunks) : seq[p] \in Range(chunks[k].text)
              /\ (chunks = << >>) <=> (seq = << >>)

\* C29 witness: a transcript with an entry without words has been cut into
\* several chunks, the last one the flushed tail, two of them sharing a word.
C29_Witness ==
    /\ ChunkDone
    /\ Len(chunks) >= 3
    /\ \E i \in 1..Len(entries) : entries[i].text = << >>
    /\ Len(chunks[Len(chunks)].text) < size
    /\ Range(chunks[1].text) \cap Range(chunks[2].text) # {}

-----------------------------------------------------------------------------
(* Further claims about the provider calls, checked under SpecCall *)

\* The class of a provider failure: the HTTP status of the error the client
\* raised, "none" for a failure without one.
StatusOf(e) ==
    IF Len(e) >= 15 /\ SubSeq(e, 1, 12) = "Error code: "
    THEN SubSeq(e, 13, 15) ELSE "none"

\* A failure of the provider with an overload signal.
Overloaded(did) == did.kind = "raise" /\ StatusOf(did.text) = "503"

\* C25: on the Q&A path a failure of the first call with an overload signal
\* is followed by the cooldown of 60 seconds (and so by one retry), not by an
\* error.
C25_OverloadRetriedOnQa ==
    (path = "qa" /\ calls # << >> /\ Overloaded(calls[1])) =>
        (slept # << >> /\ slept[1] = 60)

\* C27: a ValueError that leaves answer_question after a provider failure
\* carries one of three fixed messages, and the message is the one any other
\* failure of the same class would have given on the same attempt.
C27_MessageByClassOnly ==
    (path = "qa" /\ outcome.kind = "ValueError" /\ calls # << >>
        /\ calls[Len(calls)].kind = "raise") =>
        /\ outcome.text \in {QA_AT_CAPACITY, QA_TOO_LARGE, QA_GENERIC}
        /\ \A e \in ProviderErrors :
              StatusOf(e) = StatusOf(calls[Len(calls)].text) =>
                  AnswerExcept(e, attempt) = Leave(outcome)

\* A failure of the provider with a rate-limit, quota or overload signal.
TransientSignal(did) ==
    did.kind = "raise" /\ StatusOf(did.text) \in {"429", "402", "503"}

\* A call of the summary or transcription path that did not give a result.
CallFailed(did) ==
    \/ Failed(did)
    \/ path = "load" /\ json_loads(Strip(did.text)).kind = "raise"

\* C28: on the summary and transcription paths at most 3 calls are made; the
\* k-th call, when it fails with a transient signal, is followed by a wait of
\* 70 k seconds; a call that fails otherwise is the last one, with no wait
\* after it and a ValueError; after three transient failures a ValueError
\* leaves the function.
C28_ThreeAttemptsEscalatingWaits ==
    path \in AnalysisPaths \cup {"load"} =>
        /\ Len(calls) <= 3
        /\ \A k \in 1..Len(calls) :
              /\ TransientSignal(calls[k]) =>
                    (Len(slept) >= k /\ slept[k] = 70 * k)
              /\ (CallFailed(calls[k]) /\ ~TransientSignal(calls[k])) =>
                    /\ k = Len(calls)
                    /\ Len(slept) = k - 1
                    /\ rpc \in {"handler", "done"}
                    /\ outcome.kind = "ValueError"
        /\ (Len(calls) = 3 /\ TransientSignal(calls[3])
                /\ rpc \in {"handler", "done"}) => outcome.kind = "ValueError"

-----------------------------------------------------------------------------
(* Claims about the session store, checked under SpecSession *)

\* C1: in every reachable state of a session, the video and the index are
\* both absent, or both present with the index built from that same video
\* (index.video_id equals video.video_id).
C1_VideoAndIndexTogether ==
    \A c \in DOMAIN _store :
        LET session == _store[c]
        IN  \/ session.video = None /\ session.qa_index = None
            \/ /\ session.video # None
               /\ session.qa_index # None
               /\ session.qa_index.video_id = session.video.video_id

\* C2: when load_video has failed on a video without chunks, the session
\* has no video loaded: has_video() is false and the video field does not
\* hold the rejected video.
C2_FailedLoadLeavesNoVideo ==
    last.load = "raised" =>
        LET session == _store[last.chat_id]
        IN  /\ ~has_video(session)
            /\ session.video = None \/ session.video.video_id # last.video_id

\* The chunks of a video, as the bot makes them from its transcription.
ChunksOf(video_id) ==
    Range(fetch_video_data(video_id, Ok(TranscriptJson(video_id))).value.chunks)

\* C3: every chunk retrieved for a chat's question is a chunk of a video
\* that was loaded in that chat's own session, never one of a video loaded
\* only in another chat's session.
C3_RetrievedFromOwnVideo ==
    \A i \in 1..Len(last.retrieved) :
        /\ \E v \in VideoIds : last.retrieved[i] \in ChunksOf(v)
        /\ \A v \in VideoIds :
              last.retrieved[i] \in ChunksOf(v) => v \in loaded[last.chat_id]

\* C3 witness: chat 1 has loaded one video, chat 2 another, and the question
\* of chat 2 has retrieved chunks, all of its own video.
C3_Witness ==
    /\ loaded[1] = {"vidA"}
    /\ loaded[2] = {"vidB"}
    /\ 1 \in DOMAIN _store /\ has_video(_store[1])
    /\ last.chat_id = 2
    /\ last.retrieved # << >>
    /\ \A i \in 1..Len(last.retrieved) : last.retrieved[i] \in ChunksOf("vidB")

\* C6: a handler's store.get (the first thing it does) removes every session
\* that had then been idle for more than TTL: one of another chat is gone
\* from the store, the requested one is replaced by a freshly made session,
\* and no session left in the store has been idle for more than TTL.
C6_SweepOnGet ==
    [][updates' = updates + 1 =>
        /\ \A c \in DOMAIN _store :
              (now - _store[c].last_active) > TTL =>
                  IF c = last'.chat_id
                  THEN last'.returned = UserSession(c, now)
                  ELSE c \notin DOMAIN _store'
        /\ \A c \in DOMAIN _store' : (now - _store'[c].last_active) <= TTL
      ]_vars

\* C6 witness: a get for chat 2 has found the sessions of both chats expired;
\* chat 1's is gone and chat 2 has been handed a new session.
C6_Witness ==
    /\ last.chat_id = 2
    /\ last.expired = {1, 2}
    /\ last.new
    /\ last.returned = UserSession(2, last.returned.last_active)
    /\ DOMAIN _store = {2}

-----------------------------------------------------------------------------
(* Claims about QAIndex.search, checked under SpecSearch *)

SearchDone == spc = "done"

\* The ranking by descending score in which equal scores keep the order of
\* the chunks (lower index first).
StableRanking(sims) ==
    CHOOSE p \in Permutations(1..Len(sims)) :
        \A i, j \in 1..Len(sims) :
            i < j => \/ sims[p[i]] > sims[p[j]]
                     \/ sims[p[i]] = sims[p[j]] /\ p[i] < p[j]

\* C11 (as claimed): the chunks search returns are the first of the ranking
\* by descending similarity in which chunks of equal similarity keep their
\* original order, lower index first.
C11_DescendingStableTies ==
    SearchDone =>
        \A i \in 1..Min(Len(hits), Len(scores)) :
            hits[i] = IndexOf(Len(scores)).chunks[StableRanking(scores)[i]]

\* C12 (as claimed): on either backend the result has min(top_k, N) entries
\* and no chunk twice; with top_k above N it is all N chunks, each once.
C12_MinEntriesNoRepeat ==
    SearchDone =>
        /\ Len(hits) = Min(asked_k, Len(scores))
        /\ \A i, j \in 1..Len(hits) : i # j => hits[i] # hits[j]
        /\ asked_k > Len(scores) =>
              Range(hits) = Range(IndexOf(Len(scores)).chunks)

\* What the other backend can return for the same index, scores and top_k.
OtherBackendResults ==
    IF backend
    THEN {search(IndexOf(Len(scores)), Reverse(p), asked_k, FALSE) :
            p \in argsort(scores)}
    ELSE {search(IndexOf(Len(scores)), r, asked_k, TRUE) :
            r \in FaissOrders(scores)}

\* C13 (as claimed): for the same index, query and top_k the two backends
\* return the same ordered list of chunks.
C13_BackendsAgree ==
    SearchDone => \A other \in OtherBackendResults : other = hits

-----------------------------------------------------------------------------
(* Further claims about the sessions, checked under SpecSession *)

\* C14: building an index on an empty chunk list fails and yields no index:
\* a load of a video without chunks ends in the error, a load that ends
\* well has indexed the chunks of its video, and every index held by a
\* session has at least one chunk.
C14_NoEmptyIndex ==
    /\ \A c \in DOMAIN _store :
          _store[c].qa_index # None => Len(_store[c].qa_index.chunks) >= 1
    /\ last.load # "none" =>
          LET session == _store[last.chat_id]
          IN  /\ last.load = "raised" <=> session.video.chunks = << >>
              /\ last.load = "ok" =>
                    session.qa_index.chunks = session.video.chunks

\* C14 witness: a load of a video without chunks has failed, in a session
\* that holds no index.
C14_Witness ==
    /\ last.load = "raised"
    /\ _store[last.chat_id].video.chunks = << >>
    /\ _store[last.chat_id].qa_index = None

-----------------------------------------------------------------------------
(* Further claims about one request, checked under SpecCall *)

\* answer_question has left its loop after a call the provider answered.
Answered ==
    /\ path = "qa"
    /\ rpc \in {"handler", "done"}
    /\ calls # << >>
    /\ calls[Len(calls)].kind = "response"
    /\ ~calls[Len(calls)].none

\* C15: when the provider's response contains one of the no-information
\* phrases in any letter case, or is shorter than the minimum length,
\* answer_question returns the sentinel NOT_COVERED; and it never returns a
\* text that contains one of the phrases.
C15_SentinelForNoInformation ==
    /\ Answered =>
          LET content == calls[Len(calls)].text
          IN  /\ outcome.kind = "return"
              /\ ((\E ph \in not_covered_phrases : Contains(Lower(content), ph))
                    \/ Len(content) < MIN_ANSWER_LEN)
                  => outcome.text = NOT_COVERED
    /\ (path = "qa" /\ outcome.kind = "return") =>
          \A ph \in not_covered_phrases : ~Contains(Lower(outcome.text), ph)

\* C15 witness: the provider has answered with a phrase in another letter
\* case and the sentinel has been returned.
C15_Witness ==
    /\ Answered
    /\ Contains(calls[Len(calls)].text, "Not Mentioned")
    /\ outcome = Returned(NOT_COVERED)

-----------------------------------------------------------------------------
(* Claims about the cache, checked under SpecCache *)

\* C16: on both backends, when no backend call fails, a get(k) made after a
\* set(k, v) and before the TTL has elapsed (so also immediately after it)
\* returns v; a get(k) made once the TTL has elapsed since the last
\* set(k, .) is a miss.
C16_RoundTripAndExpiry ==
    clast.op = "get" =>
        LET w == written[clast.k]
        IN  /\ (w.any /\ w.ok /\ ~clast.failed
                   /\ clast.at - w.at < CACHE_TTL)
                => (clast.hit /\ clast.value = w.v)
            /\ (w.any /\ clast.at - w.at >= CACHE_TTL) => ~clast.hit

\* C16 witness: on Redis a get has missed a key that was set exactly one
\* TTL before.
C16_Witness ==
    /\ use_redis
    /\ clast.op = "get"
    /\ written[clast.k].ok
    /\ clast.at - written[clast.k].at = CACHE_TTL
    /\ ~clast.hit

\* C17: an operation in which a Redis call fails raises nothing: a get is
\* a miss, a set changes nothing, and the request of _handle_youtube_url
\* goes on with the fetched video as on a miss.
C17_FailureIsMissOrNoOp ==
    [][(cops' = cops + 1 /\ clast'.failed) =>
        /\ ~clast'.raised
        /\ clast'.op = "get" => (~clast'.hit /\ kept' = kept)
        /\ clast'.op = "set" => kept' = kept
        /\ clast'.op = "request" => clast'.value = FETCHED
      ]_vars

\* C17 witness: the get of a request has failed, and the request has gone
\* on with the fetched video and has stored it.
C17_Witness ==
    /\ clast.op = "request"
    /\ clast.failed
    /\ ~clast.raised
    /\ clast.value = FETCHED
    /\ written["v:vidA"].v = FETCHED
    /\ written["v:vidA"].ok

-----------------------------------------------------------------------------
(* Claims about the history, checked under SpecHistory *)

\* C18: after any sequence of add_history calls the history holds at most
\* 20 entries, and they are the most recent min(n, 20) of the n entries
\* appended, in the order they were appended.
C18_HistoryIsLastTwenty ==
    LET n == Len(appended)
        kept_n == Min(n, 20)
    IN  /\ Len(talking.history) <= 20
        /\ talking.history = SubSeq(appended, n - kept_n + 1, n)

\* C18 witness: 23 entries have been appended, the last three by calls
\* followed here; the history holds 20, the oldest of them the fourth one
\* appended.
C18_Witness ==
    /\ Len(appended) = 23
    /\ added = 3
    /\ Len(talking.history) = 20
    /\ talking.history[1].content = 4
    /\ talking.history[20].content = 23

-----------------------------------------------------------------------------
(* Claims about get and reset, checked under SpecSession *)

\* A session as it is created: language "English", no video, no index, an
\* empty history.
Fresh(id, t) ==
    [chat_id |-> id, language |-> "English", video |-> [none |-> TRUE],
     qa_index |-> [none |-> TRUE], history |-> << >>, last_active |-> t]

\* C19: get(id) returns the session stored under id with last_active set to
\* the current time; for an id with no stored session (never seen, or swept
\* as expired) it returns a newly created one with language "English", no
\* video, no index and an empty history.
C19_GetReturnsTouchedOrNew ==
    [][(updates' = updates + 1 /\ last'.op = "get") =>
        LET id == last'.chat_id
            stored == id \in DOMAIN _store
                      /\ (now - _store[id].last_active) <= TTL
        IN  /\ last'.returned.last_active = now
            /\ last'.new = ~stored
            /\ IF stored
               THEN last'.returned = [_store[id] EXCEPT !.last_active = now]
               ELSE last'.returned = Fresh(id, now)
      ]_vars

\* C19 witness: get has returned a stored session, with its video, at a
\* later time than the one it was last active at.
C19_Witness ==
    /\ last.op = "get"
    /\ ~last.new
    /\ last.returned.video # None
    /\ last.returned.qa_index # None
    /\ last.returned.last_active = 1

\* C20: reset(id) leaves under id a newly created session (language
\* "English", no video, no index, empty history), whatever was held before,
\* and leaves the sessions of the other ids that have not expired as they
\* were.
C20_ResetRecreates ==
    [][(updates' = updates + 1 /\ last'.op = "reset") =>
        LET id == last'.chat_id
        IN  /\ id \in DOMAIN _store'
            /\ _store'[id] = Fresh(id, now)
            /\ last'.returned = Fresh(id, now)
            /\ \A c \in DOMAIN _store \ {id} :
                  (now - _store[c].last_active) <= TTL =>
                      (c \in DOMAIN _store' /\ _store'[c] = _store[c])
      ]_vars

\* C20 witness: chat 1 has loaded one video and chat 2 another one (it is in
\* the cache), chat 2 has then reset: its session is a new one and the
\* session of chat 1 still holds its video.
C20_Witness ==
    /\ last.op = "reset"
    /\ last.chat_id = 2
    /\ "v:vidB" \in DOMAIN _s
    /\ loaded[1] = {"vidA"}
    /\ 1 \in DOMAIN _store /\ has_video(_store[1])
    /\ _store[2] = Fresh(2, _store[2].last_active)

-----------------------------------------------------------------------------
(* Claims about load_video, checked under SpecSession *)

\* The video the URL handler has handed to load_video: the one the transcript
\* cache holds for the id after the handler.
HandedVideo(s, video_id) == s["v:" \o video_id].v

\* has_video() of the session the store holds for a chat, false without one.
HasVideoIn(st, c) == c \in DOMAIN st /\ has_video(st[c])

\* C21: a successful load_video(v) leaves the session with video = v, an
\* index built from v, an empty history and last_active at the current time,
\* and its language as it was; has_video() turns from false to true only in
\* a step in which load_video has succeeded.
C21_LoadVideoEffect ==
    [][/\ (updates' = updates + 1 /\ last'.load = "ok") =>
            LET c == last'.chat_id
                v == HandedVideo(_s', last'.video_id)
                after == _store'[c]
            IN  /\ after.video = v
                /\ v.video_id = last'.video_id
                /\ after.qa_index = [video_id |-> v.video_id,
                                     title |-> v.title, chunks |-> v.chunks]
                /\ after.history = << >>
                /\ after.last_active = now
                /\ after.language = last'.returned.language
       /\ \A c \in Users :
            (~HasVideoIn(_store, c) /\ HasVideoIn(_store', c)) =>
                (updates' = updates + 1 /\ last'.load = "ok"
                    /\ last'.chat_id = c)
      ]_vars

\* C21 witness: load_video has succeeded on a session that held another
\* video and a conversation about it; the session has the new video, an
\* index over it and no conversation.
C21_Witness ==
    /\ last.load = "ok"
    /\ last.returned.history # << >>
    /\ last.returned.video.video_id # last.video_id
    /\ _store[last.chat_id].video.video_id = last.video_id
    /\ _store[last.chat_id].qa_index.video_id = last.video_id
    /\ _store[last.chat_id].history = << >>

-----------------------------------------------------------------------------
(* Claims about the handlers of several chats, checked under SpecLoop *)

\* C22: while the request of one user is inside a cooldown, a queued request
\* of another user can start.
C22_OtherUserNotBlocked ==
    \A i, j \in 1..Len(inbox) :
        (hpc[i] \in Sleeping /\ hpc[j] = "queued"
            /\ inbox[j].chat # inbox[i].chat) => ENABLED TakeUpdate(j)

\* C23: a handler in progress holds the session object the store holds for
\* its chat, and no other handler is in progress for that chat.
C23_OneHandlerPerSession ==
    \A i \in 1..Len(inbox) :
        InProgress(hpc[i]) =>
            /\ inbox[i].chat \in DOMAIN sessions
            /\ sessions[inbox[i].chat] = holds[i]
            /\ \A j \in 1..Len(inbox) \ {i} :
                  InProgress(hpc[j]) => inbox[j].chat # inbox[i].chat

\* C23 witness: a user has sent a link and then /reset; the load is in
\* progress, waiting on the provider, and the reset is queued.
C23_Witness ==
    /\ Len(inbox) >= 2
    /\ inbox[1] = [chat |-> 1, kind |-> "url"]
    /\ inbox[2] = [chat |-> 1, kind |-> "reset"]
    /\ hpc[1] = "sleep_fetch"
    /\ hpc[2] = "queued"

\* C24: at most one embedding model is made, none before the first embed
\* call, and every embed call after the first finds the one made by it.
C24_OneModel ==
    /\ models_made <= 1
    /\ (embeds = 0) <=> (_model = NoModel)
    /\ (embeds = 0) <=> (models_made = 0)
    /\ _model \in {NoModel, 1}

\* C24 witness: the handlers of two chats have made three embed calls, and
\* one model has been made.
C24_Witness ==
    /\ embeds = 3
    /\ models_made = 1
    /\ \E i, j \in 1..Len(inbox) :
          /\ inbox[i].chat # inbox[j].chat
          /\ inbox[i].kind = "url" /\ hpc[i] = "done"
          /\ inbox[j].kind = "url" /\ hpc[j] = "done"

-----------------------------------------------------------------------------
(* Claims about the Q&A branch of handle_message, checked under SpecAnswer *)

\* C26: when answer_question has returned or raised, the history and the
\* index it was given are as they were when it was called.
C26_AnswerLeavesItsInputs ==
    qpc = "answered" =>
        /\ asking.history = given.history
        /\ asking.qa_index = given.qa_index

\* C26 witness: answer_question has raised on a conversation longer than the
\* 6 turns it puts in the prompt.
C26_Witness ==
    /\ qpc = "answered"
    /\ answered.kind = "ValueError"
    /\ Len(given.history) > 6
    /\ Len(asking.history) = Len(given.history)

\* The turns the handler is to record for an outcome of answer_question.
TurnsFor(out) ==
    IF out.kind # "return" THEN << >>
    ELSE IF out.text = "NOT_COVERED"
    THEN <<[role |-> "user", content |-> QUESTION]>>
    ELSE <<[role |-> "user", content |-> QUESTION],
           [role |-> "assistant", content |-> out.text]>>

\* C30: after the Q&A handler the history is the one before it followed by
\* the user turn and the assistant turn for a real answer, by the user turn
\* alone for the sentinel, by nothing when answer_question raised (the last
\* 20 entries of it, the cap of add_history), and the sentinel has not been
\* added as an assistant entry.
C30_HistoryFollowsOutcome ==
    qpc = "replied" =>
        LET h == given.history \o TurnsFor(answered)
            n == Len(h)
        IN  /\ asking.history = SubSeq(h, n - Min(n, 20) + 1, n)
            /\ \A i \in 1..Len(asking.history) :
                  asking.history[i] #
                      [role |-> "assistant", content |-> "NOT_COVERED"]

\* C30 witness: the provider's answer was normalised to the sentinel, and
\* the handler has added the user turn alone to a conversation.
C30_Witness ==
    /\ qpc = "replied"
    /\ answered = Returned(NOT_COVERED)
    /\ Len(given.history) = 4
    /\ Len(asking.history) = 5
    /\ asking.history[5] = [role |-> "user", content |-> QUESTION]

-----------------------------------------------------------------------------
(* Claims about eviction and about the transcript cache, checked under     *)
(* SpecSession                                                             *)

\* The session a chat has in st, idle for at most 6 hours at time t.
Alive(st, c, t) == c \in DOMAIN st /\ (t - st[c].last_active) <= 3600 * 6

\* C31: a store.get for any id removes no session that has been idle for at
\* most TTL: the sessions of the other ids stay as they are, language, video,
\* index and history, and the session of the id itself is the one returned,
\* not a new one.
C31_NoEarlyEviction ==
    [][(updates' = updates + 1 /\ last'.op \in {"get", "reset"}) =>
        /\ \A c \in Users \ {last'.chat_id} :
              Alive(_store, c, now) =>
                  /\ c \in DOMAIN _store'
                  /\ c \notin last'.expired
                  /\ _store'[c] = _store[c]
        /\ (last'.op = "get" /\ Alive(_store, last'.chat_id, now)) =>
              LET before == _store[last'.chat_id]
                  after == last'.returned
              IN  /\ ~last'.new
                  /\ last'.chat_id \notin last'.expired
                  /\ after.language = before.language
                  /\ after.video = before.video
                  /\ after.qa_index = before.qa_index
                  /\ after.history = before.history
      ]_vars

\* C31 witness: chat 2 has called store.get while the session of chat 1,
\* with its video, had been idle for exactly TTL; that session is still
\* held.
C31_Witness ==
    /\ last.op = "get"
    /\ last.chat_id = 2
    /\ last.expired = {}
    /\ 1 \in DOMAIN _store
    /\ has_video(_store[1])
    /\ now - _store[1].last_active = TTL

\* C32: every video the transcript cache holds has at least one chunk.
C32_CachedVideosHaveChunks ==
    \A video_id \in VideoIds :
        ("v:" \o video_id) \in DOMAIN _s =>
            _s["v:" \o video_id].v.chunks # << >>

====
